---- MODULE Spec2Model ----
(***************************************************************************)
(* A model of the CitrexSDK client class (src/src/index.ts): the order     *)
(* construction and signing pipeline, the result envelopes of the public  *)
(* operations, the batch wrappers, the K-line validation, the public      *)
(* reads, listBalances, deposit and its wait for receipts, the client     *)
(* configuration and the referral call of the constructor.                *)
(*                                                                         *)
(* Conventions                                                             *)
(*  - A JavaScript number is a record [k, c, e]: k = "num" stands for the  *)
(*    decimal c * 10^-e (normalised: no trailing zero in the fraction)    *)
(*    and k = "undefined" for an omitted argument.                        *)
(*  - A bigint is a record [c, z] standing for c * 10^z (18-decimal       *)
(*    fixed point values exceed 32-bit integers).                         *)
(*  - Time values are kept in units of 1000 ms: the clock `now` counts    *)
(*    seconds, THIRTY_DAYS is thirty days in that unit.                   *)
(*  - price * multiplier is computed in exact decimal arithmetic.         *)
(***************************************************************************)
EXTENDS Integers, Sequences, FiniteSets, TLC

VARIABLES
    subAccountId,   \* this.subAccountId
    now,            \* Date.now(), in clock units
    perfNow,        \* performance.now(), in clock units
    calls,          \* the calls in flight: one record per call slot
    batch,          \* the placeOrders / cancelOrders promise in flight
    completed,      \* call slots in the order in which they settled
    config,         \* the readonly fields of the client
    referral        \* the referral call the constructor started

vars == <<subAccountId, now, perfNow, calls, batch, completed, config, referral>>

-----------------------------------------------------------------------------
(* Bounds of the model *)

MaxNow == 2
MaxBatch == 2
MaxSubAccountId == 2
MaxBalances == 2
MaxLookups == 3

-----------------------------------------------------------------------------
(* Program constants *)

\* enum OrderType
LIMIT == 0
LIMIT_MAKER == 1
MARKET == 2
LIMIT_REDUCE_ONLY == 3

\* enum TimeInForce
GTC == 0
FOK == 1
IOC == 2

THIRTY_DAYS == 2592000
KlinesMaxLimit == 1000
WeiDecimals == 18
UsdcDecimals == 6
MainnetChainId == 42161
TestnetChainId == 421614

UNKNOWN_ERROR == "An unknown error occurred. Try enabling debug mode for mode detail."
PRICE_INCREMENT_REQUIRED == "A priceIncrement is required for market orders"
LIMIT_ERROR == "Limit must be between 0 and 1000."
START_AFTER_END_ERROR == "Start time cannot be after end time."
START_IN_FUTURE_ERROR == "Start time cannot be in the future."

Account == "0xb47B0b1e44B932Ae9Bb01817E7010A553A965Ea8"
UsdcAddress == "0xb8be1401e65dc08bfb8f832fc1a27a16ca821b05"
MainnetUsdcAddress == "0xaf88d065e77c8cc2239327c5edb3a432268e5831"
VerifierAddress == "0x27809a3Bd3cf44d855f1BE668bFD16D34bcE157C"

Environments == {"testnet", "mainnet"}

\* the fields the constructor sets from the environment (config.rpc not given)
constructor(environment) ==
    LET mainnet == environment = "mainnet"
        chainId == IF mainnet THEN MainnetChainId ELSE TestnetChainId
    IN  [account |-> Account,
         apiUrl |-> IF mainnet THEN "https://api.citrex.markets/v1"
                    ELSE "https://api.staging.citrex.markets/v1",
         chain |-> chainId,
         ciaoAddress |-> IF mainnet THEN "0x7461cFe1A4766146cAFce60F6907Ea657550670d"
                         ELSE "0x0F571400ef7D2aEc68b29e58be3adCE1Bb27f33d",
         domain |-> [name |-> "ciao", version |-> "0.0.0", chainId |-> chainId,
                     verifyingContract |-> VerifierAddress],
         environment |-> environment,
         marginAssets |-> [USDC |-> IF mainnet THEN MainnetUsdcAddress ELSE UsdcAddress],
         rpc |-> IF mainnet THEN "https://arb1.arbitrum.io/rpc"
                 ELSE "https://sepolia-rollup.arbitrum.io/rpc",
         verifierAddress |-> VerifierAddress]

\* this.domain
domain == config.domain

\* no referral call was made
NoReferral == [pc |-> "none", sent |-> <<>>, promise |-> "none", logs |-> <<>>]

\* #refer up to its await: #fetchFromAPI has called fetch
refer(cfg) ==
    [pc |-> "fetching",
     sent |-> <<[apiUrl |-> cfg.apiUrl, path |-> "vault/referral", method |-> "POST",
                 body |-> [account |-> cfg.account, code |-> "kickflip"]]>>,
     promise |-> "pending",
     logs |-> <<>>]

\* the last statement of the constructor: the promise of #refer is dropped
constructorReferral(environment) ==
    IF environment = "mainnet" THEN refer(constructor(environment)) ELSE NoReferral

-----------------------------------------------------------------------------
(* JavaScript numbers and bigints *)

NoInt == 0 - 1      \* an omitted integer-valued argument

RECURSIVE Pow10(_)
Pow10(n) == IF n <= 0 THEN 1 ELSE 10 * Pow10(n - 1)

RECURSIVE Normalise(_, _)
Normalise(c, e) ==
    IF e > 0 /\ c % 10 = 0 THEN Normalise(c \div 10, e - 1)
    ELSE [k |-> "num", c |-> c, e |-> e]

Num(c, e) == Normalise(c, e)
Undefined == [k |-> "undefined", c |-> 0, e |-> 0]

Abs(x) == IF x < 0 THEN 0 - x ELSE x

\* a <= b for two "num" records
NumLeq(a, b) ==
    LET m == IF a.e > b.e THEN a.e ELSE b.e
    IN  a.c * Pow10(m - a.e) <= b.c * Pow10(m - b.e)

\* Number.prototype.toString: decimal notation for 1e-6 <= |v| < 1e21 and for
\* zero, exponential notation ("1e-7") below that, "undefined" for undefined.
NumberToString(v) ==
    IF v.k # "num" THEN [form |-> v.k, neg |-> FALSE, int |-> 0, frac |-> 0, fracLen |-> 0]
    ELSE IF v.c # 0 /\ v.e > 6 /\ Abs(v.c) < Pow10(v.e - 6)
    THEN [form |-> "exponential", neg |-> v.c < 0, int |-> 0, frac |-> 0, fracLen |-> 0]
    ELSE [form |-> "decimal", neg |-> v.c < 0,
          int |-> Abs(v.c) \div Pow10(v.e),
          frac |-> Abs(v.c) % Pow10(v.e),
          fracLen |-> v.e]

Throw == [ok |-> FALSE, c |-> 0, z |-> 0]
Big(c, z) == [ok |-> TRUE, c |-> c, z |-> z]

\* viem parseUnits(value, decimals): rejects everything that is not
\* -?digits[.digits]; pads the fraction to `decimals` digits, or rounds it
\* half up when it is longer.
ParseUnits(s, decimals) ==
    IF s.form # "decimal" THEN Throw
    ELSE LET sign == IF s.neg THEN 0 - 1 ELSE 1
             whole == s.int * Pow10(s.fracLen) + s.frac
         IN  IF s.fracLen <= decimals
             THEN Big(sign * whole, decimals - s.fracLen)
             ELSE LET cut == Pow10(s.fracLen - decimals)
                  IN  Big(sign * ((2 * whole + cut) \div (2 * cut)), 0)

\* #toUSDC
toUSDC(value) == ParseUnits(NumberToString(value), UsdcDecimals)

\* #toWei
toWei(value) == ParseUnits(NumberToString(value), WeiDecimals)

\* BigInt(number): a RangeError for a non-integer, a TypeError for undefined
ToBigInt(v) ==
    IF v.k = "num" /\ v.e = 0 THEN Big(v.c, 0) ELSE Throw

-----------------------------------------------------------------------------
(* Slippage *)

\* rounding to the nearest multiple, half away from zero
toRoundedHalfAway(value, precision) ==
    IF value.e <= precision THEN value
    ELSE LET cut == Pow10(value.e - precision)
             q == (2 * Abs(value.c) + cut) \div (2 * cut)
         IN  Num((IF value.c < 0 THEN 0 - q ELSE q), precision)

\* utils/toRounded(value, precision): the digits after the first `precision`
\* decimal places are dropped (3450 * 0.9875 = 3406.875 becomes 3406.8 and
\* 3450 * 1.025 becomes 3536.2 at precision 1)
toRounded(value, precision) ==
    IF value.e <= precision THEN value
    ELSE LET cut == Pow10(value.e - precision)
             q == Abs(value.c) \div cut
         IN  Num((IF value.c < 0 THEN 0 - q ELSE q), precision)

\* the direction of the adjustment inverted
SlippageProductInverted(isBuy, price, slippage) ==
    LET hundred == 100 * Pow10(slippage.e)
        factor == IF isBuy THEN hundred - slippage.c ELSE hundred + slippage.c
    IN  Num(price.c * factor, price.e + slippage.e + 2)

\* price * (1 + slippage / 100) or price * (1 - slippage / 100)
SlippageProduct(isBuy, price, slippage) ==
    LET hundred == 100 * Pow10(slippage.e)
        factor == IF isBuy THEN hundred + slippage.c ELSE hundred - slippage.c
    IN  Num(price.c * factor, price.e + slippage.e + 2)

\* #adjustPriceForSlippage; priceIncrement is 10^incrementExp
adjustPriceForSlippage(isBuy, price, slippage, incrementExp) ==
    LET precision == 18 - incrementExp
    IN  toRounded(SlippageProduct(isBuy, price, slippage), precision)

-----------------------------------------------------------------------------
(* Calls, signatures, requests, responses and results *)

Slots == 1..MaxBatch

NoResult == [error |-> "", key |-> "", value |-> ""]
NoResponse == [kind |-> "none", error |-> "", success |-> "", data |-> ""]
ThrownResponse == [kind |-> "threw", error |-> "", success |-> "", data |-> ""]
NoMessage == [none |-> TRUE]

\* startSub is this.subAccountId and startPerf is performance.now() at the
\* moment of the call; chain, allowance, lookups (the receipt lookups of the
\* current #waitForTransaction, counted up to MaxLookups), broadcast (the
\* hashes of the transactions of the call that reached the network),
\* thrown (the error caught, if any), errorName and transactionHash belong to
\* deposit
IdleCall ==
    [op |-> "none", args |-> [none |-> TRUE], pc |-> "idle", calledAt |-> 0,
     primaryType |-> "", message |-> NoMessage, wire |-> NoMessage,
     signed |-> <<>>, sent |-> <<>>, response |-> NoResponse, result |-> NoResult,
     startSub |-> 0, startPerf |-> 0, chain |-> <<>>, allowance |-> Throw,
     lookups |-> 0, broadcast |-> {},
     thrown |-> <<>>, errorName |-> "", transactionHash |-> ""]

\* what the API can answer: a success payload, or a body carrying `error`
ApiResponses ==
    { [kind |-> "body", error |-> "", success |-> "true", data |-> "payload"],
      [kind |-> "body", error |-> "A known error occurred", success |-> "false", data |-> ""],
      [kind |-> "body", error |-> "A known error occurred", success |-> "undefined", data |-> ""] }

Envelope(error, key, value) == [error |-> error, key |-> key, value |-> value]

\* a call that returned before any await
Returned(op, args, t, result) ==
    [IdleCall EXCEPT !.op = op, !.args = args, !.pc = "returned", !.calledAt = t,
                     !.result = result]

\* a call whose synchronous part threw outside any try block: the promise of
\* the async function is rejected
Threw(op, args, t) ==
    [IdleCall EXCEPT !.op = op, !.args = args, !.pc = "threw", !.calledAt = t]

\* a call suspended at `await this.#generateSignature(message, primaryType)`
Signing(op, args, t, primaryType, message, wire) ==
    [IdleCall EXCEPT !.op = op, !.args = args, !.pc = "signing", !.calledAt = t,
                     !.primaryType = primaryType, !.message = message, !.wire = wire]

\* the timestamp in seconds: Math.floor(Date.now() / 1000)
getCurrentTimestampInSeconds(t) == Num(t \div 1000, 0)

\* #getCurrentTimestamp
getCurrentTimestamp(t) == Num(t, 0)

\* the wall-clock timestamp alone, in microseconds
getNonceWallClock(t, p) == Num(t * 1000, 0)

\* #getNonce: Math.floor((Date.now() + performance.now()) * 1000); the floor
\* of an integer is that integer
getNonce(t, p) == Num((t + p) * 1000, 0)

\* account.signTypedData({domain, message, primaryType, types})
signTypedData(message, primaryType) ==
    [signer |-> Account, domain |-> domain, primaryType |-> primaryType,
     message |-> message]

-----------------------------------------------------------------------------
(* The synchronous part of each operation: from the call to the first await *)

\* the pre-flight check left out
MissingPriceIncrementUnchecked(orderType, priceIncrement) == FALSE

\* placeOrder's pre-flight check, line 1096
MissingPriceIncrement(orderType, priceIncrement) ==
    orderType = MARKET /\ priceIncrement = NoInt

\* a default slippage of one percent
DefaultSlippageOnePercent == Num(1, 0)

\* the default of the slippage parameter of placeOrder: slippage = 2.5
DefaultSlippage == Num(25, 1)

\* placeOrder, lines 1084-1128
placeOrder(args, sub, t, p) ==
    LET expiration == IF args.expiration = Undefined
                      THEN Num(getCurrentTimestamp(t).c + THIRTY_DAYS, 0)
                      ELSE args.expiration
        nonce == IF args.nonce = Undefined THEN getNonce(t, p) ELSE args.nonce
        orderType == IF args.orderType = NoInt THEN MARKET ELSE args.orderType
        slippage == IF args.slippage = Undefined THEN DefaultSlippage ELSE args.slippage
        timeInForce == IF args.timeInForce = NoInt THEN FOK ELSE args.timeInForce
    IN  IF MissingPriceIncrement(orderType, args.priceIncrement)
        THEN Returned("placeOrder", args, t,
                      Envelope(PRICE_INCREMENT_REQUIRED, "order", "{}"))
        ELSE
        LET bigPrice ==
                IF orderType = MARKET
                THEN toWei(adjustPriceForSlippage(args.isBuy, args.price, slippage,
                                                  args.priceIncrement))
                ELSE toWei(args.price)
            bigQuantity == toWei(args.quantity)
            sharedParams ==
                [account |-> Account, isBuy |-> args.isBuy, orderType |-> orderType,
                 productId |-> args.productId, subAccountId |-> sub,
                 timeInForce |-> timeInForce]
            message ==
                [expiration |-> ToBigInt(expiration), nonce |-> ToBigInt(nonce),
                 price |-> bigPrice, quantity |-> bigQuantity,
                 sharedParams |-> sharedParams]
            wire ==
                [expiration |-> expiration, nonce |-> nonce,
                 price |-> bigPrice, quantity |-> bigQuantity,
                 sharedParams |-> sharedParams]
        IN  IF ~bigPrice.ok \/ ~bigQuantity.ok
               \/ ~message.expiration.ok \/ ~message.nonce.ok
            THEN Threw("placeOrder", args, t)
            ELSE Signing("placeOrder", args, t, "Order", message, wire)

\* the caller's order kind passed through
ReplacementOrderTypeFromArgs(args) ==
    IF args.orderType = NoInt THEN LIMIT_MAKER ELSE args.orderType

\* the order kind and time-in-force of a replacement order, lines 651 and 654
ReplacementOrderType(args) == LIMIT_MAKER
ReplacementTimeInForce(args) == GTC

\* cancelAndReplaceOrder, lines 634-665
cancelAndReplaceOrder(args, sub, t, p) ==
    LET expiration == IF args.expiration = Undefined
                      THEN Num(getCurrentTimestamp(t).c + THIRTY_DAYS, 0)
                      ELSE args.expiration
        nonce == IF args.nonce = Undefined THEN getNonce(t, p) ELSE args.nonce
        bigPrice == toWei(args.price)
        bigQuantity == toWei(args.quantity)
        sharedParams ==
            [account |-> Account, isBuy |-> args.isBuy,
             orderType |-> ReplacementOrderType(args),
             productId |-> args.productId, subAccountId |-> sub,
             timeInForce |-> ReplacementTimeInForce(args)]
        message ==
            [expiration |-> ToBigInt(expiration), nonce |-> ToBigInt(nonce),
             price |-> bigPrice, quantity |-> bigQuantity,
             sharedParams |-> sharedParams]
        wire ==
            [idToCancel |-> args.orderId,
             newOrder |-> [expiration |-> expiration, nonce |-> nonce,
                           price |-> bigPrice, quantity |-> bigQuantity,
                           sharedParams |-> sharedParams]]
    IN  IF ~bigPrice.ok \/ ~bigQuantity.ok
           \/ ~message.expiration.ok \/ ~message.nonce.ok
        THEN Threw("cancelAndReplaceOrder", args, t)
        ELSE Signing("cancelAndReplaceOrder", args, t, "Order", message, wire)

\* cancelOrder, lines 755-767
cancelOrder(args, sub, t) ==
    LET message == [account |-> Account, orderId |-> args.orderId,
                    productId |-> args.productId, subAccountId |-> sub]
    IN  Signing("cancelOrder", args, t, "CancelOrder", message, message)

\* cancelOpenOrdersForProduct, lines 709-719
cancelOpenOrdersForProduct(args, sub, t) ==
    LET message == [account |-> Account, productId |-> args.productId,
                    subAccountId |-> sub]
    IN  Signing("cancelOpenOrdersForProduct", args, t, "CancelOrders", message, message)

\* withdraw, lines 1181-1202
withdraw(args, sub, t, p) ==
    LET bigQuantity == toUSDC(args.quantity)
        nonce == getNonce(t, p)
        sharedParams == [account |-> Account, asset |-> config.marginAssets.USDC,
                         subAccountId |-> sub]
        message == [sharedParams |-> sharedParams, nonce |-> ToBigInt(nonce),
                    quantity |-> bigQuantity]
        wire == [sharedParams |-> sharedParams, nonce |-> nonce,
                 quantity |-> bigQuantity]
    IN  IF ~bigQuantity.ok \/ ~message.nonce.ok
        THEN Threw("withdraw", args, t)
        ELSE Signing("withdraw", args, t, "Withdraw", message, wire)

\* #generateSignedAuthentication, called first by listBalances, listOpenOrders
\* and listPositions
listQuery(op, args, sub, t) ==
    Signing(op, args, t, "SignedAuthentication",
            [account |-> Account, subAccountId |-> sub], NoMessage)

ListOps == {"listBalances", "listOpenOrders", "listPositions"}

\* Number(x) > Number(y), where Number(undefined) is NaN and every
\* comparison with NaN is false
NumberGt(x, y) == x # NoInt /\ y # NoInt /\ x > y
NumberLeq(x, y) == x # NoInt /\ y # NoInt /\ x <= y

\* the time-range check moved in front of the limit check
KlinesValidationRangeFirst(args, t) ==
    IF ~args.given THEN ""
    ELSE IF NumberGt(args.startTime, args.endTime)
    THEN START_AFTER_END_ERROR
    ELSE IF NumberGt(args.limit, KlinesMaxLimit) \/ NumberLeq(args.limit, 0)
    THEN LIMIT_ERROR
    ELSE IF NumberGt(args.startTime, t)
    THEN START_IN_FUTURE_ERROR
    ELSE ""

\* the lower bound of the limit left unchecked
KlinesValidationNoLowerBound(args, t) ==
    IF ~args.given THEN ""
    ELSE IF NumberGt(args.limit, KlinesMaxLimit)
    THEN LIMIT_ERROR
    ELSE IF NumberGt(args.startTime, args.endTime)
    THEN START_AFTER_END_ERROR
    ELSE IF NumberGt(args.startTime, t)
    THEN START_IN_FUTURE_ERROR
    ELSE ""

\* getKlines, lines 425-446: the message of the first failing check, "" if none
KlinesValidation(args, t) ==
    IF ~args.given THEN ""
    ELSE IF NumberGt(args.limit, KlinesMaxLimit) \/ NumberLeq(args.limit, 0)
    THEN LIMIT_ERROR
    ELSE IF NumberGt(args.startTime, args.endTime)
    THEN START_AFTER_END_ERROR
    ELSE IF NumberGt(args.startTime, t)
    THEN START_IN_FUTURE_ERROR
    ELSE ""

\* every request built with the sub-account current when it is sent
RequestWithCurrentSubAccount(call, signature, sub) ==
    LET wire ==
            CASE call.op \in {"placeOrder", "withdraw"} ->
                    [call.wire EXCEPT !.sharedParams.subAccountId = sub]
              [] call.op = "cancelAndReplaceOrder" ->
                    [call.wire EXCEPT !.newOrder.sharedParams.subAccountId = sub]
              [] call.op \in {"cancelOrder", "cancelOpenOrdersForProduct"} ->
                    [call.wire EXCEPT !.subAccountId = sub]
              [] OTHER -> [account |-> Account, subAccountId |-> sub,
                           symbol |-> call.args.productSymbol]
    IN  [path |-> call.op, method |-> "POST", body |-> wire,
         signature |-> <<signature>>]

\* the request a call sends once it has its signature; the list queries read
\* this.subAccountId again when they build their query string
Request(call, signature, sub) ==
    LET route ==
            CASE call.op = "placeOrder" -> [path |-> "order", method |-> "POST"]
              [] call.op = "cancelAndReplaceOrder" ->
                    [path |-> "order/cancel-and-replace", method |-> "POST"]
              [] call.op = "cancelOrder" -> [path |-> "order", method |-> "DELETE"]
              [] call.op = "cancelOpenOrdersForProduct" ->
                    [path |-> "openOrders", method |-> "DELETE"]
              [] call.op = "withdraw" -> [path |-> "withdraw", method |-> "POST"]
              [] call.op = "listBalances" -> [path |-> "balances", method |-> "GET"]
              [] call.op = "listOpenOrders" -> [path |-> "openOrders", method |-> "GET"]
              [] call.op = "listPositions" -> [path |-> "positionRisk", method |-> "GET"]
        body == IF call.op \in ListOps
                THEN [account |-> Account, subAccountId |-> sub,
                      symbol |-> call.args.productSymbol]
                ELSE call.wire
    IN  [path |-> route.path, method |-> route.method,
         body |-> body, signature |-> <<signature>>]

\* getKlines, lines 421-459: validate, then fetch uiKlines
getKlines(args, t) ==
    LET error == KlinesValidation(args, t)
    IN  IF error # ""
        THEN Returned("getKlines", args, t, Envelope(error, "klines", "[]"))
        ELSE [IdleCall EXCEPT !.op = "getKlines", !.args = args, !.pc = "fetching",
                              !.calledAt = t,
                              !.sent = <<[path |-> "uiKlines", method |-> "GET",
                                          body |-> args, signature |-> <<>>]>>]

ReadOps == {"getProducts", "getProduct", "getOrderBook", "getTickers", "getServerTime"}

\* getProducts, getProduct, getOrderBook, getTickers, getServerTime: one fetch
publicRead(op, t) ==
    LET path == CASE op = "getProducts" -> "products"
                  [] op = "getProduct" -> "products/product-by-id"
                  [] op = "getOrderBook" -> "depth"
                  [] op = "getTickers" -> "ticker/24hr"
                  [] op = "getServerTime" -> "time"
    IN  [IdleCall EXCEPT !.op = op, !.pc = "fetching", !.calledAt = t,
                         !.sent = <<[path |-> path, method |-> "GET",
                                     body |-> NoMessage, signature |-> <<>>]>>]

\* the catch block of every operation
CatchResult(op) ==
    CASE op \in {"placeOrder", "cancelAndReplaceOrder"} -> Envelope(UNKNOWN_ERROR, "order", "{}")
      [] op \in {"cancelOrder", "cancelOpenOrdersForProduct", "withdraw"} ->
            Envelope(UNKNOWN_ERROR, "success", "false")
      [] op = "getKlines" -> Envelope(UNKNOWN_ERROR, "klines", "[]")
      [] op = "listBalances" -> Envelope(UNKNOWN_ERROR, "balances", "[]")
      [] op = "listOpenOrders" -> Envelope(UNKNOWN_ERROR, "orders", "[]")
      [] op = "listPositions" -> Envelope(UNKNOWN_ERROR, "positions", "[]")
      [] op = "getProducts" -> Envelope(UNKNOWN_ERROR, "products", "[]")
      [] op = "getProduct" -> Envelope(UNKNOWN_ERROR, "product", "{}")
      [] op = "getOrderBook" -> Envelope(UNKNOWN_ERROR, "asks,bids", "[]")
      [] op = "getTickers" -> Envelope(UNKNOWN_ERROR, "tickers", "{}")
      [] op = "getServerTime" -> Envelope(UNKNOWN_ERROR, "timestamp", "undefined")

\* addressToKeyMap[asset], lines 939-945 and 964: the key of this.marginAssets
\* whose address is the asset, undefined when there is none
addressToKeyMap(asset) ==
    LET keys == {key \in DOMAIN config.marginAssets : config.marginAssets[key] = asset}
    IN  IF keys = {} THEN "undefined" ELSE CHOOSE key \in keys : TRUE

\* response.map(...) of listBalances, lines 961-968
balances(response) ==
    [i \in 1..Len(response) |->
        [address |-> response[i].asset,
         asset |-> addressToKeyMap(response[i].asset),
         pendingWithdrawal |-> response[i].pendingWithdrawal,
         quantity |-> response[i].quantity]]

\* what each operation returns for a parsed response body
NormaliseResponse(op, r) ==
    CASE op \in {"placeOrder", "cancelAndReplaceOrder"} ->
            IF r.error # "" THEN Envelope(r.error, "order", "{}")
            ELSE Envelope("", "order", r.data)
      [] op \in {"cancelOrder", "cancelOpenOrdersForProduct"} ->
            IF r.error # "" THEN Envelope(r.error, "success", r.success)
            ELSE Envelope("", "success", r.success)
      [] op = "withdraw" ->
            IF r.error # "" THEN Envelope(r.error, "success", "false")
            ELSE Envelope("", "success", r.success)
      [] op = "getKlines" ->
            Envelope("", "klines", IF r.error # "" THEN "{error}" ELSE r.data)
      [] op \in ListOps ->
            LET key == CASE op = "listBalances" -> "balances"
                         [] op = "listOpenOrders" -> "orders"
                         [] op = "listPositions" -> "positions"
            IN  IF r.error # "" THEN Envelope(r.error, key, "[]")
                ELSE IF op = "listBalances" /\ r.kind = "balances"
                THEN Envelope("", key, balances(r.data))
                ELSE Envelope("", key, r.data)
      [] op = "getProducts" ->
            Envelope("", "products", IF r.error # "" THEN "{error}" ELSE r.data)
      [] op = "getProduct" ->
            Envelope("", "product", IF r.error # "" THEN "{error}" ELSE r.data)
      [] op = "getOrderBook" ->
            \* const { asks, bids } = response
            Envelope("", "asks,bids", IF r.error # "" THEN "undefined" ELSE r.data)
      [] op = "getTickers" ->
            \* tickers.reduce(...) on a body that is no array throws
            IF r.error # "" THEN CatchResult(op) ELSE Envelope("", "tickers", r.data)
      [] op = "getServerTime" ->
            \* the body itself is returned: its error is a string, not {message}
            IF r.error # "" THEN Envelope("", "error", r.error)
            ELSE Envelope("", "timestamp", r.data)

-----------------------------------------------------------------------------
(* Inputs *)

ProductIds == {1002}
OrderIds == {"0x3505", "0x08d4"}
Prices == {Num(3450, 0)}
Quantities == {Num(1, 3), Num(1, 7)}
Slippages == {Undefined, Num(1, 0)}
IncrementExps == {NoInt, 17}
Expirations == {Undefined, Num(9, 0), Num(15, 1)}
Nonces == {Undefined, Num(123, 0)}
OrderTypes == {NoInt, LIMIT, LIMIT_MAKER, MARKET, LIMIT_REDUCE_ONLY}
TimesInForce == {NoInt, GTC, FOK, IOC}

OrderArgs ==
    [expiration : Expirations, isBuy : BOOLEAN, nonce : Nonces,
     orderType : OrderTypes, price : Prices, priceIncrement : IncrementExps,
     productId : ProductIds, quantity : Quantities, slippage : Slippages,
     timeInForce : TimesInForce]

\* the arguments of a replacement order, with the order kind and the
\* time-in-force a caller may put there
ReplacementOrderArgs ==
    [orderId : OrderIds, expiration : Expirations, isBuy : BOOLEAN, nonce : Nonces,
     price : {Num(3455, 0)}, productId : ProductIds, quantity : Quantities,
     orderType : OrderTypes, timeInForce : TimesInForce]

CancelArgs == [orderId : OrderIds, productId : ProductIds]
CancelAllArgs == [productId : ProductIds]
WithdrawArgs == [quantity : {Num(10, 0), Num(1, 7)}]

ListArgs == [productSymbol : {"", "ethperp"}]

KlineLimits == {NoInt, 0, 1, KlinesMaxLimit, KlinesMaxLimit + 1}
KlineTimes == {NoInt} \cup (0..(MaxNow + 1))
KlineArgs ==
    [given : {TRUE}, limit : KlineLimits, startTime : KlineTimes, endTime : KlineTimes]
    \cup [given : {FALSE}, limit : {NoInt}, startTime : {NoInt}, endTime : {NoInt}]

\* the elements of a placeOrders batch: a market order with and without
\* its priceIncrement, a limit order, a limit order whose quantity is 1e-7
BatchOrderArgs ==
    { a \in OrderArgs :
        /\ a.expiration = Undefined /\ a.nonce = Undefined /\ a.isBuy
        /\ a.orderType \in {NoInt, LIMIT}
        /\ a.slippage = Undefined /\ a.timeInForce = NoInt
        /\ (a.priceIncrement # NoInt => a.orderType = NoInt)
        /\ (a.quantity = Num(1, 7) => a.orderType = LIMIT) }

\* market orders and orders of the other kinds over a range of prices,
\* slippages and price increments
SlippagePrices == {Num(3450, 0), Num(34501, 1), Num(34505, 1), Num(5, 1), Num(1, 0)}
SlippageValues == {Undefined, Num(1, 0), Num(125, 2), Num(1, 2), Num(50, 0)}
SlippageIncrementExps == {16, 17, 18}
MarketOrderArgs ==
    [expiration : {Undefined}, isBuy : BOOLEAN, nonce : {Undefined},
     orderType : {NoInt, MARKET}, price : SlippagePrices,
     priceIncrement : SlippageIncrementExps, productId : ProductIds,
     quantity : {Num(1, 3)}, slippage : SlippageValues, timeInForce : {NoInt}]

\* the balances the API may answer with: the margin asset of either
\* environment and an asset the client has no key for
WethAddress == "0x82af49447d8a07e3bd95bd0d56f35241523fbab1"
AssetAddresses == {UsdcAddress, MainnetUsdcAddress, WethAddress}
Balances ==
    [asset : AssetAddresses, pendingWithdrawal : {"0"},
     quantity : {"0", "100000000000000000000"}]

LimitOrderArgs ==
    [expiration : {Undefined}, isBuy : BOOLEAN, nonce : {Undefined},
     orderType : {LIMIT, LIMIT_MAKER, LIMIT_REDUCE_ONLY}, price : SlippagePrices,
     priceIncrement : {NoInt} \cup SlippageIncrementExps, productId : ProductIds,
     quantity : {Num(1, 3)}, slippage : SlippageValues, timeInForce : {NoInt}]

RECURSIVE SeqsOf(_, _)
SeqsOf(S, n) ==
    IF n = 0 THEN {<<>>}
    ELSE {Append(q, x) : q \in SeqsOf(S, n - 1), x \in S}

SeqsUpTo(S, n) == UNION {SeqsOf(S, k) : k \in 1..n}

-----------------------------------------------------------------------------
(* The state machine *)

NoBatch == [kind |-> "none", n |-> 0, status |-> "none", results |-> <<>>]

Init ==
    /\ subAccountId = 1
    /\ now = 1
    /\ perfNow \in {0, 1}
    /\ calls = [c \in Slots |-> IdleCall]
    /\ batch = NoBatch
    /\ completed = <<>>
    /\ config = constructor("testnet")
    /\ referral = constructorReferral("testnet")

Quiet == batch.kind = "none" /\ \A c \in Slots : calls[c].pc = "idle"

Settled(call) == call.pc \in {"returned", "threw"}

\* the slots that settled while the operation was being called
NewlySettled(cs, n) ==
    LET RECURSIVE Go(_)
        Go(i) == IF i > n THEN <<>>
                 ELSE IF Settled(cs[i]) THEN <<i>> \o Go(i + 1) ELSE Go(i + 1)
    IN  Go(1)

\* a single public operation is called: its synchronous part runs
StartSingle(call) ==
    /\ calls' = [calls EXCEPT ![1] = [call EXCEPT !.startSub = subAccountId,
                                                  !.startPerf = perfNow]]
    /\ completed' = NewlySettled(calls', 1)
    /\ UNCHANGED <<subAccountId, now, perfNow, batch, config, referral>>

PlaceOrder ==
    /\ Quiet
    /\ \E args \in OrderArgs : StartSingle(placeOrder(args, subAccountId, now, perfNow))

PlaceMarketOrder ==
    /\ Quiet
    /\ \E args \in MarketOrderArgs :
        StartSingle(placeOrder(args, subAccountId, now, perfNow))

PlaceLimitOrder ==
    /\ Quiet
    /\ \E args \in LimitOrderArgs :
        StartSingle(placeOrder(args, subAccountId, now, perfNow))

CancelAndReplaceOrder ==
    /\ Quiet
    /\ \E args \in ReplacementOrderArgs :
        StartSingle(cancelAndReplaceOrder(args, subAccountId, now, perfNow))

CancelOrder ==
    /\ Quiet
    /\ \E args \in CancelArgs : StartSingle(cancelOrder(args, subAccountId, now))

CancelOpenOrdersForProduct ==
    /\ Quiet
    /\ \E args \in CancelAllArgs :
        StartSingle(cancelOpenOrdersForProduct(args, subAccountId, now))

Withdraw ==
    /\ Quiet
    /\ \E args \in WithdrawArgs : StartSingle(withdraw(args, subAccountId, now, perfNow))

ListQuery ==
    /\ Quiet
    /\ \E op \in ListOps, args \in ListArgs :
        /\ (op = "listBalances" => args.productSymbol = "")
        /\ StartSingle(listQuery(op, args, subAccountId, now))

GetKlines ==
    /\ Quiet
    /\ \E args \in KlineArgs : StartSingle(getKlines(args, now))

GetPublicData ==
    /\ Quiet
    /\ \E op \in ReadOps : StartSingle(publicRead(op, now))

\* the values collected in the order in which the elements settled
BatchResultsByCompletion(cs, n, order) == [i \in 1..n |-> cs[order[i]].result]

\* Promise.all over the element promises: rejected as soon as one element is
\* rejected, resolved with the elements' values by position once all resolved
BatchResults(cs, n, order) == [i \in 1..n |-> cs[i].result]

PromiseAll(b, cs, order) ==
    IF b.kind = "none" \/ b.status # "pending" THEN b
    ELSE IF \E i \in 1..b.n : cs[i].pc = "threw"
    THEN [b EXCEPT !.status = "rejected"]
    ELSE IF \A i \in 1..b.n : cs[i].pc = "returned"
    THEN [b EXCEPT !.status = "resolved", !.results = BatchResults(cs, b.n, order)]
    ELSE b

\* placeOrders / cancelOrders: map runs the synchronous part of every element
\* in input order, then Promise.all waits; perf[i] is the reading of
\* performance.now() when element i is called
StartBatch(kind, cs, n, perf) ==
    /\ calls' = [c \in Slots |-> IF c <= n
                                  THEN [cs[c] EXCEPT !.startSub = subAccountId,
                                                     !.startPerf = perf[c]]
                                  ELSE IdleCall]
    /\ completed' = NewlySettled(calls', n)
    /\ batch' = PromiseAll([kind |-> kind, n |-> n, status |-> "pending",
                            results |-> <<>>], calls', completed')
    /\ perfNow' = perf[n]
    /\ UNCHANGED <<subAccountId, now, config, referral>>

\* the readings of performance.now() of the elements of a batch: the clock
\* shows the same value to all of them (its resolution is coarser than the
\* time between two elements) or a later value to each
Readings(n, advanced) == [i \in 1..n |-> IF advanced THEN perfNow + (i - 1) ELSE perfNow]

PlaceOrders ==
    /\ Quiet
    /\ \E ordersArgs \in SeqsUpTo(BatchOrderArgs, MaxBatch), advanced \in BOOLEAN :
        LET n == Len(ordersArgs)
            perf == Readings(n, advanced)
        IN  /\ perf[n] <= MaxNow
            /\ StartBatch("placeOrders",
                          [i \in 1..n |->
                               placeOrder(ordersArgs[i], subAccountId, now, perf[i])],
                          n, perf)

CancelOrders ==
    /\ Quiet
    /\ \E ordersArgs \in SeqsUpTo(CancelArgs, MaxBatch) :
        StartBatch("cancelOrders",
                   [i \in 1..Len(ordersArgs) |->
                        cancelOrder(ordersArgs[i], subAccountId, now)],
                   Len(ordersArgs), Readings(Len(ordersArgs), FALSE))

\* a step of one call in flight; the batch, if any, observes the settlement
Step(c, call) ==
    /\ calls' = [calls EXCEPT ![c] = call]
    /\ completed' = IF Settled(call) THEN Append(completed, c) ELSE completed
    /\ batch' = PromiseAll(batch, calls', completed')
    /\ UNCHANGED <<subAccountId, now, perfNow, config, referral>>

\* account.signTypedData resolves: the request is built and fetch is called
SignResolved(call, sub) ==
    LET signature == signTypedData(call.message, call.primaryType)
    IN  [call EXCEPT !.pc = "fetching",
                     !.signed = Append(call.signed, signature),
                     !.sent = Append(call.sent, Request(call, signature, sub))]

\* the request sent without a signature when signing failed
SignRejectedStillSends(call) ==
    [call EXCEPT !.pc = "fetching",
                 !.sent = Append(call.sent,
                                 [Request(call, signTypedData(call.message, call.primaryType),
                                          call.startSub)
                                  EXCEPT !.signature = <<>>])]

\* a signing failure left to propagate out of the operation
SignRejectedPropagates(call) == [call EXCEPT !.pc = "threw"]

\* account.signTypedData throws: the catch block of the operation runs
SignRejected(call) ==
    [call EXCEPT !.pc = "returned", !.result = CatchResult(call.op)]

\* fetch and response.json() resolve with a body
FetchResolved(call, r) ==
    [call EXCEPT !.pc = "returned", !.response = r,
                 !.result = NormaliseResponse(call.op, r)]

\* fetch or response.json() throws
FetchRejected(call) ==
    [call EXCEPT !.pc = "returned", !.response = ThrownResponse,
                 !.result = CatchResult(call.op)]

SignResolve ==
    \E c \in Slots : calls[c].pc = "signing" /\ Step(c, SignResolved(calls[c], subAccountId))

SignReject ==
    \E c \in Slots : calls[c].pc = "signing" /\ Step(c, SignRejected(calls[c]))

FetchResolve ==
    \E c \in Slots, r \in ApiResponses :
        calls[c].pc = "fetching" /\ Step(c, FetchResolved(calls[c], r))

FetchReject ==
    \E c \in Slots : calls[c].pc = "fetching" /\ Step(c, FetchRejected(calls[c]))

\* a setter that also rebuilds the client for the other environment
SetSubAccountIdAndEnvironment ==
    \E id \in 1..MaxSubAccountId :
        /\ id # subAccountId
        /\ subAccountId' = id
        /\ config' = constructor(IF config.environment = "mainnet" THEN "testnet"
                                 ELSE "mainnet")
        /\ UNCHANGED <<now, perfNow, calls, batch, completed, referral>>

\* set setSubAccountId
SetSubAccountId ==
    \E id \in 1..MaxSubAccountId :
        /\ id # subAccountId
        /\ subAccountId' = id
        /\ UNCHANGED <<now, perfNow, calls, batch, completed, config, referral>>

\* time passes
Tick ==
    /\ now < MaxNow
    /\ now' = now + 1
    /\ perfNow' = perfNow + 1
    /\ UNCHANGED <<subAccountId, calls, batch, completed, config, referral>>

\* the caller has its answer and every call has settled: the slots are free
Return ==
    /\ ~Quiet
    /\ \A c \in Slots : calls[c].pc = "idle" \/ Settled(calls[c])
    /\ calls' = [c \in Slots |-> IdleCall]
    /\ batch' = NoBatch
    /\ completed' = <<>>
    /\ UNCHANGED <<subAccountId, now, perfNow, config, referral>>

Next ==
    \/ PlaceOrder
    \/ CancelAndReplaceOrder
    \/ CancelOrder
    \/ CancelOpenOrdersForProduct
    \/ Withdraw
    \/ ListQuery
    \/ GetKlines
    \/ GetPublicData
    \/ SignResolve
    \/ SignReject
    \/ FetchResolve
    \/ FetchReject
    \/ SetSubAccountId
    \/ Tick
    \/ Return

\* single operations, one at a time, while the clock runs and the caller may
\* switch the sub-account
Spec == Init /\ [][Next]_vars

NextBatch ==
    \/ PlaceOrders
    \/ CancelOrders
    \/ SignResolve
    \/ SignReject
    \/ FetchResolve
    \/ FetchReject
    \/ Return

\* the batch wrappers, their elements settling in every order
SpecBatch == Init /\ [][NextBatch]_vars

NextSlippage ==
    \/ PlaceMarketOrder
    \/ PlaceLimitOrder
    \/ SignResolve
    \/ SignReject
    \/ FetchResolve
    \/ FetchReject
    \/ Return

\* market orders over a range of prices, slippages and price increments
SpecSlippage == Init /\ [][NextSlippage]_vars

-----------------------------------------------------------------------------
(* deposit: the allowance read, the approval and the deposit transaction *)

DepositQuantities == {Num(10, 0), Num(5, 1), Num(1, 7)}
Allowances == {Big(0, 0), Big(5, 6), Big(20, 6)}
ApprovalHash == "0xa9"
DepositHash == "0xd3"

\* what simulateContract and writeContract can throw: a BaseError that holds a
\* ContractFunctionRevertedError, with or without decoded data, a BaseError
\* that holds none, and any other error
ContractErrors ==
    { [base |-> TRUE, revert |-> TRUE, errorName |-> "InsufficientBalance",
       shortMessage |-> "The contract function \"deposit\" reverted."],
      [base |-> TRUE, revert |-> TRUE, errorName |-> "undefined",
       shortMessage |-> "The contract function \"approve\" reverted."],
      [base |-> TRUE, revert |-> FALSE, errorName |-> "", shortMessage |-> "HTTP request failed."],
      [base |-> FALSE, revert |-> FALSE, errorName |-> "", shortMessage |-> ""] }

\* shortMessage.replace(/"/g, `'`)
ReplaceQuotes(s) ==
    CASE s = "The contract function \"deposit\" reverted." ->
            "The contract function 'deposit' reverted."
      [] s = "The contract function \"approve\" reverted." ->
            "The contract function 'approve' reverted."
      [] OTHER -> s

\* a < b for two bigints
BigLess(a, b) ==
    LET m == IF a.z < b.z THEN a.z ELSE b.z
    IN  a.c * Pow10(a.z - m) < b.c * Pow10(b.z - m)

\* one interaction with the chain: a contract read, a simulation, a
\* transaction handed to the wallet, a receipt seen
ChainStep(step, sub, quantity, hash) ==
    [step |-> step, subAccountId |-> sub, quantity |-> quantity, hash |-> hash]

\* deposit up to `await this.publicClient.readContract(...)`
deposit(args, t) ==
    LET bigQuantity == toUSDC(args.quantity)
    IN  IF ~bigQuantity.ok THEN Threw("deposit", args, t)
        ELSE [IdleCall EXCEPT !.op = "deposit", !.args = args, !.pc = "readAllowance",
                              !.calledAt = t,
                              !.chain = <<ChainStep("allowance", 0, bigQuantity, "")>>]

\* simulateContract of CIAO.deposit, with this.subAccountId as it is now
simulateDeposit(call, sub) ==
    [call EXCEPT !.pc = "simulateDeposit",
                 !.chain = Append(call.chain,
                                  ChainStep("simulateDeposit", sub,
                                            toUSDC(call.args.quantity), ""))]

\* the allowance is known: approve first when it is below the quantity
AllowanceRead(call, allowance, sub) ==
    LET bigQuantity == toUSDC(call.args.quantity)
        known == [call EXCEPT !.allowance = allowance]
    IN  IF BigLess(allowance, bigQuantity)
        THEN [known EXCEPT !.pc = "simulateApprove",
                           !.chain = Append(call.chain,
                                            ChainStep("simulateApprove", 0, bigQuantity, ""))]
        ELSE simulateDeposit(known, sub)

\* a simulation succeeded: its request is handed to walletClient.writeContract
SimulationResolved(call) ==
    IF call.pc = "simulateApprove"
    THEN [call EXCEPT !.pc = "writeApprove",
                      !.chain = Append(call.chain,
                                       ChainStep("writeApprove", 0,
                                                 toUSDC(call.args.quantity), ""))]
    ELSE [call EXCEPT !.pc = "writeDeposit",
                      !.chain = Append(call.chain,
                                       ChainStep("writeDeposit", call.chain[Len(call.chain)].subAccountId,
                                                 toUSDC(call.args.quantity), ""))]

\* writeContract returned the hash: #waitForTransaction asks for the receipt
WriteResolved(call) ==
    IF call.pc = "writeApprove"
    THEN [call EXCEPT !.pc = "waitApprove", !.lookups = 1,
                      !.broadcast = call.broadcast \cup {ApprovalHash},
                      !.chain = Append(call.chain,
                                       ChainStep("approveHash", 0, Throw, ApprovalHash))]
    ELSE [call EXCEPT !.pc = "waitDeposit", !.lookups = 1,
                      !.broadcast = call.broadcast \cup {DepositHash},
                      !.chain = Append(call.chain,
                                       ChainStep("depositHash", 0, Throw, DepositHash))]

\* a failed receipt lookup taken for the receipt
ReceiptRejectedGivesUp(call) ==
    IF call.pc = "waitApprove"
    THEN [call EXCEPT !.pc = "simulateDeposit",
                      !.chain = Append(call.chain,
                                       ChainStep("simulateDeposit", call.startSub,
                                                 toUSDC(call.args.quantity), ""))]
    ELSE [call EXCEPT !.pc = "returned", !.result = Envelope("", "success", "true"),
                      !.transactionHash = DepositHash]

\* #waitForTransaction: getTransactionReceipt threw, sleep before the retry
ReceiptRejected(call) ==
    [call EXCEPT !.pc = IF call.pc = "waitApprove" THEN "sleepApprove" ELSE "sleepDeposit"]

\* the sleep is over and the function returns without calling itself
SleepResolvedReturns(call) ==
    ReceiptRejectedGivesUp(
        [call EXCEPT !.pc = IF call.pc = "sleepApprove" THEN "waitApprove"
                            ELSE "waitDeposit"])

\* #waitForTransaction: the sleep is over, the function calls itself
SleepResolved(call) ==
    [call EXCEPT !.pc = IF call.pc = "sleepApprove" THEN "waitApprove" ELSE "waitDeposit",
                 !.lookups = IF call.lookups < MaxLookups THEN call.lookups + 1
                             ELSE call.lookups]

\* the hash of the approval returned as the hash of the deposit
ReceiptResolvedReturnsApprovalHash(call, sub) ==
    IF call.pc = "waitApprove"
    THEN simulateDeposit(
             [call EXCEPT !.chain = Append(call.chain,
                                           ChainStep("approveReceipt", 0, Throw, ApprovalHash))],
             sub)
    ELSE [call EXCEPT !.pc = "returned",
                      !.chain = Append(call.chain,
                                       ChainStep("depositReceipt", 0, Throw, DepositHash)),
                      !.result = Envelope("", "success", "true"),
                      !.transactionHash = IF ApprovalHash \in call.broadcast THEN ApprovalHash
                                          ELSE DepositHash]

\* #waitForTransaction: the receipt is there; after the approval the deposit is
\* simulated, after the deposit the operation returns
ReceiptResolved(call, sub) ==
    IF call.pc = "waitApprove"
    THEN simulateDeposit(
             [call EXCEPT !.chain = Append(call.chain,
                                           ChainStep("approveReceipt", 0, Throw, ApprovalHash))],
             sub)
    ELSE [call EXCEPT !.pc = "returned",
                      !.chain = Append(call.chain,
                                       ChainStep("depositReceipt", 0, Throw, DepositHash)),
                      !.result = Envelope("", "success", "true"),
                      !.transactionHash = DepositHash]

\* every caught error reported as unknown
ContractRejectedAsUnknown(call, error) ==
    [call EXCEPT !.pc = "returned", !.thrown = <<error>>,
                 !.result = Envelope(UNKNOWN_ERROR, "success", "false")]

\* the catch block of deposit
ContractRejected(call, error) ==
    IF error.base /\ error.revert
    THEN [call EXCEPT !.pc = "returned", !.thrown = <<error>>,
                      !.result = Envelope(ReplaceQuotes(error.shortMessage), "success", "false"),
                      !.errorName = error.errorName]
    ELSE [call EXCEPT !.pc = "returned", !.thrown = <<error>>,
                      !.result = Envelope(UNKNOWN_ERROR, "success", "false")]

\* writeContract threw although the node had accepted the transaction (the
\* answer of eth_sendRawTransaction was lost or timed out): the catch block
\* runs as for every other error
WriteRejectedAfterBroadcast(call, error) ==
    [ContractRejected(call, error) EXCEPT
        !.broadcast = call.broadcast \cup {IF call.pc = "writeApprove" THEN ApprovalHash
                                           ELSE DepositHash}]

\* readContract threw: nothing catches it
ReadRejected(call) == [call EXCEPT !.pc = "threw"]

DepositPc(c, pcs) == calls[c].op = "deposit" /\ calls[c].pc \in pcs

Deposit ==
    /\ Quiet
    /\ \E quantity \in DepositQuantities :
        StartSingle(deposit([quantity |-> quantity, asset |-> "USDC"], now))

ReadResolve ==
    \E c \in Slots, allowance \in Allowances :
        /\ DepositPc(c, {"readAllowance"})
        /\ Step(c, AllowanceRead(calls[c], allowance, subAccountId))

ReadReject ==
    \E c \in Slots : DepositPc(c, {"readAllowance"}) /\ Step(c, ReadRejected(calls[c]))

SimulateResolve ==
    \E c \in Slots :
        /\ DepositPc(c, {"simulateApprove", "simulateDeposit"})
        /\ Step(c, SimulationResolved(calls[c]))

WriteResolve ==
    \E c \in Slots :
        /\ DepositPc(c, {"writeApprove", "writeDeposit"})
        /\ Step(c, WriteResolved(calls[c]))

ContractReject ==
    \E c \in Slots, error \in ContractErrors :
        /\ DepositPc(c, {"simulateApprove", "writeApprove", "simulateDeposit", "writeDeposit"})
        /\ Step(c, ContractRejected(calls[c], error))

WriteRejectAfterBroadcast ==
    \E c \in Slots, error \in {e \in ContractErrors : ~e.revert} :
        /\ DepositPc(c, {"writeApprove", "writeDeposit"})
        /\ Step(c, WriteRejectedAfterBroadcast(calls[c], error))

ReceiptResolve ==
    \E c \in Slots :
        /\ DepositPc(c, {"waitApprove", "waitDeposit"})
        /\ Step(c, ReceiptResolved(calls[c], subAccountId))

ReceiptReject ==
    \E c \in Slots :
        /\ DepositPc(c, {"waitApprove", "waitDeposit"})
        /\ Step(c, ReceiptRejected(calls[c]))

SleepResolve ==
    \E c \in Slots :
        /\ DepositPc(c, {"sleepApprove", "sleepDeposit"})
        /\ Step(c, SleepResolved(calls[c]))

NextDeposit ==
    \/ Deposit
    \/ ReadResolve
    \/ ReadReject
    \/ SimulateResolve
    \/ WriteResolve
    \/ ContractReject
    \/ WriteRejectAfterBroadcast
    \/ ReceiptResolve
    \/ ReceiptReject
    \/ SleepResolve
    \/ SetSubAccountId
    \/ Tick
    \/ Return

\* deposit, while the clock runs and the caller may switch the sub-account
SpecDeposit == Init /\ [][NextDeposit]_vars

\* new CitrexSDK(privateKey, {environment})
InitEnvironment ==
    /\ subAccountId = 1
    /\ now = 1
    /\ perfNow \in {0, 1}
    /\ calls = [c \in Slots |-> IdleCall]
    /\ batch = NoBatch
    /\ completed = <<>>
    /\ \E environment \in Environments :
        /\ config = constructor(environment)
        /\ referral = constructorReferral(environment)

\* the API answers listBalances with an array of balances
BalanceResponses ==
    [kind : {"balances"}, error : {""}, success : {""},
     data : {<<>>} \cup SeqsUpTo(Balances, MaxBalances)]

ListBalances ==
    /\ Quiet
    /\ StartSingle(listQuery("listBalances", [productSymbol |-> ""], subAccountId, now))

BalancesResolve ==
    \E c \in Slots, r \in BalanceResponses :
        /\ calls[c].pc = "fetching"
        /\ Step(c, FetchResolved(calls[c], r))

\* a failure of the referral call left to reject the promise of #refer
ReferRejectedPropagates(r) == [r EXCEPT !.pc = "done", !.promise = "rejected"]

\* fetch or response.json() of the referral call throws: the catch block
ReferRejected(r) ==
    [r EXCEPT !.pc = "done", !.promise = "fulfilled",
              !.logs = Append(r.logs, "Call failed, ignoring.")]

\* fetch and response.json() of the referral call resolve
ReferResolved(r) == [r EXCEPT !.pc = "done", !.promise = "fulfilled"]

ReferralResolve ==
    /\ referral.pc = "fetching"
    /\ referral' = ReferResolved(referral)
    /\ UNCHANGED <<subAccountId, now, perfNow, calls, batch, completed, config>>

ReferralReject ==
    /\ referral.pc = "fetching"
    /\ referral' = ReferRejected(referral)
    /\ UNCHANGED <<subAccountId, now, perfNow, calls, batch, completed, config>>

NextConfig ==
    \/ ReferralResolve
    \/ ReferralReject
    \/ CancelOrder
    \/ Withdraw
    \/ ListQuery
    \/ GetPublicData
    \/ SignResolve
    \/ SignReject
    \/ FetchResolve
    \/ FetchReject
    \/ Deposit
    \/ ReadResolve
    \/ ReadReject
    \/ SimulateResolve
    \/ WriteResolve
    \/ ContractReject
    \/ ReceiptResolve
    \/ ReceiptReject
    \/ SleepResolve
    \/ SetSubAccountId
    \/ Return

\* a client of either environment, its operations and its setter
SpecConfig == InitEnvironment /\ [][NextConfig]_vars

-----------------------------------------------------------------------------
(* Claims *)

SignedOps ==
    {"placeOrder", "cancelAndReplaceOrder", "cancelOrder",
     "cancelOpenOrdersForProduct", "withdraw"}

EffectiveOrderType(args) == IF args.orderType = NoInt THEN 2 ELSE args.orderType

MarketWithoutIncrement(call) ==
    /\ call.op = "placeOrder"
    /\ EffectiveOrderType(call.args) = 2
    /\ call.args.priceIncrement = NoInt

Finished(call) == call.pc \notin {"idle", "signing", "fetching"}

\* C1: a placeOrder call whose order type is MARKET, given or by default, and
\* that has no priceIncrement returns {error: {message: 'A priceIncrement is
\* required for market orders'}, order: {}}; it generates no signature and
\* sends no request.
C1_MarketOrderNeedsIncrement ==
    \A c \in Slots :
        MarketWithoutIncrement(calls[c]) =>
            /\ calls[c].pc = "returned"
            /\ calls[c].result =
                   [error |-> "A priceIncrement is required for market orders",
                    key |-> "order", value |-> "{}"]
            /\ calls[c].signed = <<>>
            /\ calls[c].sent = <<>>

C1_Witness ==
    /\ MarketWithoutIncrement(calls[1])
    /\ calls[1].args.orderType = NoInt
    /\ calls[1].pc = "returned"

\* C2: every call of a signed trading operation that passes pre-flight
\* validation ends in exactly one of success (no error), known failure (the
\* error message is the API's error string) and unknown failure (the generic
\* message, whenever the request or the parsing of the response throws).
C2_ThreeOutcomes ==
    \A c \in Slots :
        LET call == calls[c]
            success == call.result.error = ""
            known == /\ call.response.kind = "body"
                     /\ call.response.error # ""
                     /\ call.result.error = call.response.error
            unknown == call.result.error = UNKNOWN_ERROR
        IN  (call.op \in SignedOps /\ ~MarketWithoutIncrement(call) /\ Finished(call)) =>
                /\ call.pc = "returned"
                /\ success \/ known \/ unknown
                /\ ~(success /\ known) /\ ~(success /\ unknown) /\ ~(known /\ unknown)
                /\ (call.response.kind = "threw" => unknown)

\* what the error of one element must be, from its own arguments and its own
\* response alone
ExpectedError(call) ==
    IF MarketWithoutIncrement(call)
    THEN "A priceIncrement is required for market orders"
    ELSE IF call.response.kind = "body" THEN call.response.error
    ELSE "An unknown error occurred. Try enabling debug mode for mode detail."

\* C3: placeOrders and cancelOrders resolve with a list as long as the input
\* whose element i is the result of the single operation on args[i], in
\* whatever order the elements settle; the validation error, API error or
\* transport failure of one element leaves the other results as they are.
C3_BatchPositional ==
    /\ (batch.kind # "none" /\ \A i \in 1..batch.n : calls[i].pc = "returned") =>
            batch.status = "resolved"
    /\ batch.status = "resolved" =>
            /\ Len(batch.results) = batch.n
            /\ \A i \in 1..batch.n :
                /\ batch.results[i] = calls[i].result
                /\ batch.results[i].error = ExpectedError(calls[i])

C3_Witness ==
    /\ batch.status = "resolved"
    /\ batch.n = 2
    /\ completed = <<2, 1>>
    /\ batch.results[1].error = "A known error occurred"
    /\ batch.results[2].error = ""

\* C4: placeOrders and cancelOrders never short-circuit: the batch promise
\* never rejects, and resolves with one result per input element.
C4_NoShortCircuit ==
    batch.kind # "none" =>
        /\ batch.status # "rejected"
        /\ (batch.status = "resolved" => Len(batch.results) = batch.n)

\* C5: no public operation throws or rejects, exceptions raised before the
\* request is built included.
C5_NothingThrows == \A c \in Slots : calls[c].pc # "threw"

\* the call awaited a signature and account.signTypedData threw
SignFailed(call) ==
    call.primaryType # "" /\ call.pc # "signing" /\ call.signed = <<>>

\* C6 as stated: a failure of typed-data signing propagates out of the public
\* operation as a thrown error.
C6_SigningFailurePropagates ==
    \A c \in Slots : SignFailed(calls[c]) => calls[c].pc = "threw"

FallbackOf(op) ==
    CASE op \in {"placeOrder", "cancelAndReplaceOrder"} -> [key |-> "order", value |-> "{}"]
      [] op \in {"cancelOrder", "cancelOpenOrdersForProduct", "withdraw"} ->
            [key |-> "success", value |-> "false"]
      [] op = "listBalances" -> [key |-> "balances", value |-> "[]"]
      [] op = "listOpenOrders" -> [key |-> "orders", value |-> "[]"]
      [] op = "listPositions" -> [key |-> "positions", value |-> "[]"]

\* C6 as amended: a failure of typed-data signing is caught by the operation:
\* the call returns the unknown-error envelope with the operation's fallback
\* payload, and sends no request.
C6_SigningFailureCaught ==
    \A c \in Slots :
        SignFailed(calls[c]) =>
            /\ calls[c].pc = "returned"
            /\ calls[c].result =
                   [error |-> "An unknown error occurred. Try enabling debug mode for mode detail.",
                    key |-> FallbackOf(calls[c].op).key,
                    value |-> FallbackOf(calls[c].op).value]
            /\ calls[c].sent = <<>>

C6_Witness ==
    \E c \in Slots : SignFailed(calls[c]) /\ calls[c].op = "placeOrder"

LimitOutOfRange(args) == args.limit # NoInt /\ (args.limit > 1000 \/ args.limit <= 0)
StartAfterEnd(args) ==
    args.startTime # NoInt /\ args.endTime # NoInt /\ args.startTime > args.endTime
StartInFuture(args, t) == args.startTime # NoInt /\ args.startTime > t

\* C7: getKlines checks the limit, then start after end, then start in the
\* future, and returns the message of the first check that fails.
C7_KlinesCheckOrder ==
    \A c \in Slots :
        LET call == calls[c] IN
        (call.op = "getKlines" /\ call.args.given) =>
            /\ LimitOutOfRange(call.args) =>
                    call.result.error = "Limit must be between 0 and 1000."
            /\ (~LimitOutOfRange(call.args) /\ StartAfterEnd(call.args)) =>
                    call.result.error = "Start time cannot be after end time."
            /\ (/\ ~LimitOutOfRange(call.args) /\ ~StartAfterEnd(call.args)
                /\ StartInFuture(call.args, call.calledAt)) =>
                    call.result.error = "Start time cannot be in the future."

C7_Witness ==
    /\ calls[1].op = "getKlines"
    /\ LimitOutOfRange(calls[1].args)
    /\ StartAfterEnd(calls[1].args)
    /\ StartInFuture(calls[1].args, calls[1].calledAt)
    /\ calls[1].result.error = "Limit must be between 0 and 1000."

KlinesInvalid(call) ==
    /\ call.args.given
    /\ \/ LimitOutOfRange(call.args)
       \/ StartAfterEnd(call.args)
       \/ StartInFuture(call.args, call.calledAt)

\* C8: a getKlines call that fails validation returns {error, klines: []}
\* without sending a request; a call with no optional arguments, or with
\* arguments that pass the three checks, sends exactly one uiKlines request.
C8_KlinesRequests ==
    \A c \in Slots :
        LET call == calls[c] IN
        call.op = "getKlines" =>
            IF KlinesInvalid(call)
            THEN /\ call.pc = "returned"
                 /\ call.result.error \in
                        {"Limit must be between 0 and 1000.",
                         "Start time cannot be after end time.",
                         "Start time cannot be in the future."}
                 /\ call.result.key = "klines" /\ call.result.value = "[]"
                 /\ call.sent = <<>>
            ELSE /\ Len(call.sent) = 1
                 /\ call.sent[1].path = "uiKlines"

C8_Witness ==
    /\ calls[1].op = "getKlines"
    /\ ~calls[1].args.given
    /\ calls[1].pc = "returned"
    /\ calls[1].result.error = ""
    /\ Len(calls[1].sent) = 1

\* C9: every cancelAndReplaceOrder call signs an Order message and sends a
\* newOrder with orderType 1 (LIMIT_MAKER) and timeInForce 0 (GTC), whatever
\* order kind or time-in-force the new-order arguments carry.
C9_ReplacementPinned ==
    \A c \in Slots :
        LET call == calls[c] IN
        (call.op = "cancelAndReplaceOrder" /\ call.pc # "threw") =>
            /\ call.primaryType = "Order"
            /\ call.message.sharedParams.orderType = 1
            /\ call.message.sharedParams.timeInForce = 0
            /\ \A i \in 1..Len(call.signed) :
                /\ call.signed[i].primaryType = "Order"
                /\ call.signed[i].message.sharedParams.orderType = 1
                /\ call.signed[i].message.sharedParams.timeInForce = 0
            /\ \A i \in 1..Len(call.sent) :
                /\ call.sent[i].body.newOrder.sharedParams.orderType = 1
                /\ call.sent[i].body.newOrder.sharedParams.timeInForce = 0

C9_Witness ==
    /\ calls[1].op = "cancelAndReplaceOrder"
    /\ calls[1].args.orderType = 2
    /\ calls[1].args.timeInForce = 2
    /\ Len(calls[1].sent) = 1
    /\ calls[1].result.error = "" /\ calls[1].pc = "returned"

\* a <= b for two bigints
BigLeq(a, b) ==
    LET m == IF a.z < b.z THEN a.z ELSE b.z
    IN  a.c * Pow10(a.z - m) <= b.c * Pow10(b.z - m)

\* the caller's price as an 18-decimal integer
CallerPrice(args) == [c |-> args.price.c, z |-> 18 - args.price.e]

PositiveSlippage(args) == args.slippage = Undefined \/ args.slippage.c > 0

SignedMarketOrder(call) ==
    /\ call.op = "placeOrder"
    /\ EffectiveOrderType(call.args) = 2
    /\ call.signed # <<>>
    /\ PositiveSlippage(call.args)

PriceBounded(call) ==
    IF call.args.isBuy
    THEN BigLeq(CallerPrice(call.args), call.signed[1].message.price)
    ELSE BigLeq(call.signed[1].message.price, CallerPrice(call.args))

OnTick(args) == args.price.e <= 18 - args.priceIncrement

EffectiveSlippage(args) ==
    IF args.slippage = Undefined THEN Num(25, 1) ELSE args.slippage

\* price * (1 +/- slippage / 100) as the fraction n / 10^d
ExactProduct(args) ==
    LET s == EffectiveSlippage(args)
        hundred == 100 * Pow10(s.e)
    IN  [n |-> args.price.c * (IF args.isBuy THEN hundred + s.c ELSE hundred - s.c),
         d |-> args.price.e + s.e + 2]

MarketOrderSigned(call) ==
    /\ call.op = "placeOrder"
    /\ EffectiveOrderType(call.args) = 2
    /\ call.signed # <<>>

\* the signed price in ticks, where one tick is priceIncrement / 10^18
SignedTicks(call) ==
    LET s == call.signed[1].message.price
    IN  s.c * Pow10(s.z - call.args.priceIncrement)

\* one tick in units of 10^-d
TickIn(args) == Pow10(ExactProduct(args).d - (18 - args.priceIncrement))

\* the order of the test 'should allow a user to specify slippage' and of the
\* market-order test, with the price each test expects in the request
TestPrice(args) ==
    CASE args.isBuy /\ args.slippage = Undefined -> Big(35362, 17)
      [] args.isBuy /\ args.slippage = Num(1, 0) -> Big(34845, 17)
      [] ~args.isBuy /\ args.slippage = Num(125, 2) -> Big(34068, 17)
      [] OTHER -> Throw

IsTestOrder(args) ==
    /\ args.price = Num(3450, 0) /\ args.priceIncrement = 17
    /\ TestPrice(args) # Throw

\* C11 as stated: the signed price of a market order is the product
\* price * (1 +/- slippage / 100) rounded to 18 - log10(priceIncrement)
\* decimal places, half away from zero, and the prices the tests expect are
\* the results of that rule.
C11_RoundHalfAway ==
    \A c \in Slots :
        MarketOrderSigned(calls[c]) =>
            LET call == calls[c]
                p == ExactProduct(call.args)
                tick == TickIn(call.args)
            IN  /\ call.signed[1].message.price.z >= call.args.priceIncrement
                /\ 2 * SignedTicks(call) * tick <= 2 * p.n + tick
                /\ 2 * p.n + tick < 2 * (SignedTicks(call) + 1) * tick
                /\ IsTestOrder(call.args) =>
                        call.signed[1].message.price = TestPrice(call.args)

\* C11 as amended: the signed price of a market order is the product
\* price * (1 +/- slippage / 100) cut to 18 - log10(priceIncrement) decimal
\* places (the largest multiple of the tick that is not above the product),
\* and the prices the tests expect are the results of that rule.
C11_RoundedDown ==
    \A c \in Slots :
        MarketOrderSigned(calls[c]) =>
            LET call == calls[c]
                p == ExactProduct(call.args)
                tick == TickIn(call.args)
            IN  /\ call.signed[1].message.price.z >= call.args.priceIncrement
                /\ SignedTicks(call) * tick <= p.n
                /\ p.n < (SignedTicks(call) + 1) * tick
                /\ IsTestOrder(call.args) =>
                        call.signed[1].message.price = TestPrice(call.args)

C11_Witness ==
    /\ MarketOrderSigned(calls[1])
    /\ IsTestOrder(calls[1].args)
    /\ ~calls[1].args.isBuy
    /\ calls[1].signed[1].message.price = Big(34068, 17)
    /\ ExactProduct(calls[1].args) = [n |-> 34068750, d |-> 4]

\* the bigint b is exactly x * 10^n
ExactlyScaled(b, x, n) ==
    /\ b.ok
    /\ LET k == b.z - (n - x.e)
       IN  IF k >= 0 THEN b.c * Pow10(k) = x.c ELSE b.c = x.c * Pow10(0 - k)

\* the expiration and the nonce the caller gave, if any, are integers
IntegerTimes(args) ==
    /\ (args.expiration # Undefined => args.expiration.e = 0)
    /\ (args.nonce # Undefined => args.nonce.e = 0)

\* C12: the fixed-point conversions are defined and exact: a decimal with at
\* most 18 fractional digits converts to x * 10^18, one with at most 6
\* fractional digits to x * 10^6.
C12_ConversionsExact ==
    \A c \in Slots :
        LET call == calls[c] IN
        /\ (/\ call.op \in {"placeOrder", "cancelAndReplaceOrder"}
            /\ ~MarketWithoutIncrement(call)
            /\ IntegerTimes(call.args)
            /\ call.args.quantity.e <= 18 /\ call.args.price.e <= 18) =>
                /\ call.pc # "threw"
                /\ ExactlyScaled(call.message.quantity, call.args.quantity, 18)
                /\ (call.op = "cancelAndReplaceOrder" \/ EffectiveOrderType(call.args) # 2) =>
                        ExactlyScaled(call.message.price, call.args.price, 18)
        /\ (call.op = "withdraw" /\ call.args.quantity.e <= 6) =>
                /\ call.pc # "threw"
                /\ ExactlyScaled(call.message.quantity, call.args.quantity, 6)

PrimaryTypeOf(op) ==
    CASE op \in {"placeOrder", "cancelAndReplaceOrder"} -> "Order"
      [] op = "cancelOrder" -> "CancelOrder"
      [] op = "cancelOpenOrdersForProduct" -> "CancelOrders"
      [] op = "withdraw" -> "Withdraw"
      [] op \in ListOps -> "SignedAuthentication"

\* the typed-data message a verifier rebuilds from the fields of a request
CanonicalMessage(op, body) ==
    CASE op = "placeOrder" ->
            [expiration |-> ToBigInt(body.expiration), nonce |-> ToBigInt(body.nonce),
             price |-> body.price, quantity |-> body.quantity,
             sharedParams |-> body.sharedParams]
      [] op = "cancelAndReplaceOrder" ->
            [expiration |-> ToBigInt(body.newOrder.expiration),
             nonce |-> ToBigInt(body.newOrder.nonce),
             price |-> body.newOrder.price, quantity |-> body.newOrder.quantity,
             sharedParams |-> body.newOrder.sharedParams]
      [] op = "withdraw" ->
            [sharedParams |-> body.sharedParams, nonce |-> ToBigInt(body.nonce),
             quantity |-> body.quantity]
      [] op \in {"cancelOrder", "cancelOpenOrdersForProduct"} -> body
      [] op \in ListOps -> [account |-> body.account, subAccountId |-> body.subAccountId]

\* C13: the signature in every request of a signed operation was made by the
\* client's account over the canonical message of that request, under the
\* instance's domain and the operation's primary type.
C13_SignatureOverRequest ==
    \A c \in Slots :
        LET call == calls[c] IN
        (call.op \in SignedOps \cup ListOps) =>
            \A i \in 1..Len(call.sent) :
                call.sent[i].signature =
                    << [signer |-> "0xb47B0b1e44B932Ae9Bb01817E7010A553A965Ea8",
                        domain |-> domain,
                        primaryType |-> PrimaryTypeOf(call.op),
                        message |-> CanonicalMessage(call.op, call.sent[i].body)] >>

\* the order or withdrawal fields of a request body
PayloadOf(op, body) == IF op = "cancelAndReplaceOrder" THEN body.newOrder ELSE body

\* C14: in every placeOrder, cancelAndReplaceOrder and withdraw request each
\* field of the wire payload carries the value of the same field of the signed
\* message: the shared fields are identical, and price, quantity, expiration
\* and nonce are the string or number form of the integers that were signed.
C14_WireMatchesSigned ==
    \A c \in Slots :
        LET call == calls[c] IN
        (call.op \in {"placeOrder", "cancelAndReplaceOrder", "withdraw"}) =>
            \A i \in 1..Len(call.sent) :
                LET wire == PayloadOf(call.op, call.sent[i].body)
                    signed == call.sent[i].signature[1].message
                IN  /\ wire.sharedParams.account = signed.sharedParams.account
                    /\ wire.sharedParams.subAccountId = signed.sharedParams.subAccountId
                    /\ wire.quantity = signed.quantity
                    /\ ToBigInt(wire.nonce) = signed.nonce
                    /\ signed.nonce.ok /\ signed.quantity.ok
                    /\ IF call.op = "withdraw"
                       THEN wire.sharedParams.asset = signed.sharedParams.asset
                       ELSE /\ wire.sharedParams.isBuy = signed.sharedParams.isBuy
                            /\ wire.sharedParams.orderType = signed.sharedParams.orderType
                            /\ wire.sharedParams.productId = signed.sharedParams.productId
                            /\ wire.sharedParams.timeInForce = signed.sharedParams.timeInForce
                            /\ wire.price = signed.price
                            /\ ToBigInt(wire.expiration) = signed.expiration
                            /\ signed.price.ok /\ signed.expiration.ok

C14_Witness ==
    /\ calls[1].op = "placeOrder"
    /\ Len(calls[1].sent) = 1
    /\ calls[1].sent[1].body.sharedParams.subAccountId = 1
    /\ subAccountId = 2
    /\ calls[1].args.expiration = Num(9, 0)
    /\ calls[1].sent[1].signature[1].message.expiration = Big(9, 0)

\* the sub-account id inside a signed message or a request body
SubAccountIn(op, m) ==
    CASE op \in {"placeOrder", "withdraw"} -> m.sharedParams.subAccountId
      [] op = "cancelAndReplaceOrder" ->
            IF "newOrder" \in DOMAIN m THEN m.newOrder.sharedParams.subAccountId
            ELSE m.sharedParams.subAccountId
      [] OTHER -> m.subAccountId

\* C15: an operation uses, in everything it signs, sends and submits on-chain,
\* the sub-account id that was current when it was called, whatever
\* setSubAccountId does while it is in flight; deposit included.
C15_SubAccountAtStart ==
    \A c \in Slots :
        LET call == calls[c] IN
        /\ (call.op \in SignedOps \cup ListOps) =>
                /\ \A i \in 1..Len(call.signed) :
                        SubAccountIn(call.op, call.signed[i].message) = call.startSub
                /\ \A i \in 1..Len(call.sent) :
                        SubAccountIn(call.op, call.sent[i].body) = call.startSub
        /\ call.op = "deposit" =>
                \A i \in 1..Len(call.chain) :
                    call.chain[i].step \in {"simulateDeposit", "writeDeposit"} =>
                        call.chain[i].subAccountId = call.startSub

\* the payload key of an operation and the value it holds when there is
\* nothing to return
FallbackValue(op) ==
    CASE op \in {"placeOrder", "cancelAndReplaceOrder"} -> [key |-> "order", value |-> "{}"]
      [] op \in {"cancelOrder", "cancelOpenOrdersForProduct", "withdraw", "deposit"} ->
            [key |-> "success", value |-> "false"]
      [] op = "listBalances" -> [key |-> "balances", value |-> "[]"]
      [] op = "listOpenOrders" -> [key |-> "orders", value |-> "[]"]
      [] op = "listPositions" -> [key |-> "positions", value |-> "[]"]
      [] op = "getKlines" -> [key |-> "klines", value |-> "[]"]
      [] op = "getProducts" -> [key |-> "products", value |-> "[]"]
      [] op = "getProduct" -> [key |-> "product", value |-> "{}"]
      [] op = "getOrderBook" -> [key |-> "asks,bids", value |-> "[]"]
      [] op = "getTickers" -> [key |-> "tickers", value |-> "{}"]
      [] op = "getServerTime" -> [key |-> "timestamp", value |-> "undefined"]

\* the API answered the call with a body {error: <string>}
KnownError(call) ==
    call.pc = "returned" /\ call.response.kind = "body" /\ call.response.error # ""

\* C16: every network-backed operation, the unauthenticated reads included,
\* maps a response body {error: <string>} to a result whose error message is
\* that string and whose payload key holds the operation's fallback value.
C16_KnownErrorEverywhere ==
    \A c \in Slots :
        KnownError(calls[c]) =>
            /\ calls[c].result.error = calls[c].response.error
            /\ calls[c].result.key = FallbackValue(calls[c].op).key
            /\ calls[c].result.value = FallbackValue(calls[c].op).value

\* C17: whenever a result carries an error, its payload key holds the
\* operation's fixed fallback value, whatever else the response body held.
C17_FallbackOnError ==
    \A c \in Slots :
        (calls[c].pc = "returned" /\ calls[c].result.error # "") =>
            /\ calls[c].result.key = FallbackValue(calls[c].op).key
            /\ calls[c].result.value = FallbackValue(calls[c].op).value

HasStep(call, s) == \E i \in 1..Len(call.chain) : call.chain[i].step = s

\* every step b of the call comes after a step a
Precedes(call, a, b) ==
    \A j \in 1..Len(call.chain) :
        call.chain[j].step = b => \E i \in 1..(j - 1) : call.chain[i].step = a

ApprovalNeeded(call) ==
    LET q == toUSDC(call.args.quantity)
        m == IF call.allowance.z < q.z THEN call.allowance.z ELSE q.z
    IN  call.allowance.c * Pow10(call.allowance.z - m) < q.c * Pow10(q.z - m)

\* C18: deposit reads the allowance first; submits an approval for the deposit
\* quantity exactly when the allowance is below that quantity; simulates and
\* submits the deposit only after the approval's receipt, when there was an
\* approval; and returns success only after the deposit's own receipt.
C18_DepositProtocol ==
    \A c \in Slots :
        LET call == calls[c] IN
        (call.op = "deposit" /\ call.pc # "threw") =>
            /\ call.chain[1].step = "allowance"
            /\ \A i \in 2..Len(call.chain) : call.chain[i].step # "allowance"
            /\ call.pc # "readAllowance" =>
                    /\ call.allowance.ok
                    /\ ApprovalNeeded(call) =>
                            /\ call.chain[2].step = "simulateApprove"
                            /\ Precedes(call, "writeApprove", "simulateDeposit")
                            /\ Precedes(call, "approveReceipt", "simulateDeposit")
                            /\ Precedes(call, "approveReceipt", "writeDeposit")
                            /\ \A i \in 1..Len(call.chain) :
                                    call.chain[i].step = "writeApprove" =>
                                        call.chain[i].quantity = toUSDC(call.args.quantity)
                    /\ ~ApprovalNeeded(call) =>
                            /\ ~HasStep(call, "simulateApprove")
                            /\ ~HasStep(call, "writeApprove")
                            /\ call.chain[2].step = "simulateDeposit"
            /\ Precedes(call, "simulateApprove", "writeApprove")
            /\ Precedes(call, "simulateDeposit", "writeDeposit")
            /\ Precedes(call, "writeDeposit", "depositReceipt")
            /\ (call.pc = "returned" /\ call.result.value = "true") =>
                    /\ call.result.error = ""
                    /\ HasStep(call, "depositReceipt")

C18_Witness ==
    /\ calls[1].op = "deposit"
    /\ calls[1].pc = "returned"
    /\ calls[1].result.value = "true"
    /\ calls[1].allowance = Big(5, 6)
    /\ calls[1].args.quantity = Num(10, 0)
    /\ HasStep(calls[1], "approveReceipt")
    /\ HasStep(calls[1], "depositReceipt")

\* C19: when a step of the approve/deposit sequence throws, deposit returns
\* success: false and runs no later step; the error is {errorName, message}
\* of the contract revert when the thrown error holds one, and the unknown-
\* error message in every other case.
C19_DepositFailure ==
    \A c \in Slots :
        LET call == calls[c] IN
        (call.op = "deposit" /\ call.thrown # <<>>) =>
            LET error == call.thrown[1] IN
            /\ call.pc = "returned"
            /\ call.result.key = "success" /\ call.result.value = "false"
            /\ call.transactionHash = ""
            /\ call.chain[Len(call.chain)].step \in
                    {"simulateApprove", "writeApprove", "simulateDeposit", "writeDeposit"}
            /\ IF error.base /\ error.revert
               THEN /\ call.errorName = error.errorName
                    /\ call.result.error =
                           IF error.shortMessage = "The contract function \"deposit\" reverted."
                           THEN "The contract function 'deposit' reverted."
                           ELSE "The contract function 'approve' reverted."
               ELSE /\ call.errorName = ""
                    /\ call.result.error =
                           "An unknown error occurred. Try enabling debug mode for mode detail."

C19_Witness ==
    /\ calls[1].op = "deposit"
    /\ calls[1].thrown # <<>>
    /\ calls[1].errorName = "InsufficientBalance"
    /\ calls[1].result.error = "The contract function 'deposit' reverted."
    /\ HasStep(calls[1], "approveReceipt")
    /\ calls[1].chain[Len(calls[1].chain)].step = "simulateDeposit"

\* the configuration the constructor derives from an environment
ConfiguredFor(environment) ==
    LET chainId == IF environment = "mainnet" THEN 42161 ELSE 421614
    IN  /\ config.environment = environment
        /\ config.chain = chainId
        /\ config.account = "0xb47B0b1e44B932Ae9Bb01817E7010A553A965Ea8"
        /\ config.domain = [name |-> "ciao", version |-> "0.0.0", chainId |-> chainId,
                            verifyingContract |-> config.verifierAddress]

\* C20: the signing domain {name 'ciao', version '0.0.0', chainId of the
\* environment's chain, verifyingContract of the environment} and the rest of
\* the configuration are fixed at construction and unchanged by every
\* operation; subAccountId is the only value that changes, and only through
\* setSubAccountId. Every signature is made under that domain.
C20_ConfigurationFixed ==
    /\ [](/\ ConfiguredFor(config.environment)
          /\ \A c \in Slots : \A i \in 1..Len(calls[c].signed) :
                calls[c].signed[i].domain = config.domain)
    /\ [][/\ config' = config
          /\ subAccountId' # subAccountId => SetSubAccountId]_vars

C20_Witness ==
    /\ config.environment = "mainnet"
    /\ subAccountId = 2
    /\ calls[1].op = "withdraw"
    /\ calls[1].pc = "returned"
    /\ calls[1].startSub = 2
    /\ Len(calls[1].signed) = 1
    /\ calls[1].signed[1].domain.chainId = 42161
    /\ calls[1].signed[1].message.sharedParams.asset =
           "0xaf88d065e77c8cc2239327c5edb3a432268e5831"

-----------------------------------------------------------------------------
(* The referral call of the constructor *)

ReferralRequest(cfg) ==
    [apiUrl |-> cfg.apiUrl, path |-> "vault/referral", method |-> "POST",
     body |-> [account |-> cfg.account, code |-> "kickflip"]]

\* C21: a client constructed for mainnet has issued exactly one POST
\* vault/referral request and a client constructed for testnet none; the
\* client is fully configured whatever the state of that call, and the
\* promise of the call is never rejected, whether the request succeeds or
\* fails, so that nothing reaches the caller.
C21_ReferralFireAndForget ==
    /\ config.environment = "testnet" => referral.sent = <<>>
    /\ config.environment = "mainnet" => referral.sent = <<ReferralRequest(config)>>
    /\ referral.promise # "rejected"
    /\ ConfiguredFor(config.environment)
    /\ referral.pc = "done" => referral.promise = "fulfilled"

\* a mainnet client whose referral call failed and was ignored, and which
\* has answered an operation
C21_Witness ==
    /\ config.environment = "mainnet"
    /\ referral.logs = <<"Call failed, ignoring.">>
    /\ referral.promise = "fulfilled"
    /\ \E c \in Slots : calls[c].pc = "returned" /\ Len(calls[c].sent) = 1

-----------------------------------------------------------------------------
(* Default nonces and expirations *)

\* the calls that built a message with the default nonce
TakesDefaultNonce(call) ==
    /\ call.wire # NoMessage
    /\ \/ call.op = "withdraw"
       \/ call.op \in {"placeOrder", "cancelAndReplaceOrder"} /\ call.args.nonce = Undefined

-----------------------------------------------------------------------------
(* listBalances *)

NextBalances ==
    \/ ListBalances
    \/ SignResolve
    \/ SignReject
    \/ BalancesResolve
    \/ FetchReject
    \/ ReferralResolve
    \/ ReferralReject
    \/ SetSubAccountId
    \/ Return

\* listBalances of a client of either environment, over the balances the API
\* may answer with
SpecBalances == InitEnvironment /\ [][NextBalances]_vars

\* the values of the MarginAssets enum
MarginAssets == DOMAIN config.marginAssets

\* the balances listBalances returned for an array answered by the API
ReturnedBalances(call) ==
    /\ call.op = "listBalances"
    /\ call.pc = "returned"
    /\ call.response.kind = "balances"

\* C23: every balance returned by listBalances has an asset that is a value
\* of the MarginAssets enum and an address that is the asset address of the
\* API's balance at the same position, whatever asset addresses the API
\* answers with.
C23_BalanceAssets ==
    \A c \in Slots :
        ReturnedBalances(calls[c]) =>
            LET returned == calls[c].result.value
                response == calls[c].response.data
            IN  /\ calls[c].result.error = ""
                /\ Len(returned) = Len(response)
                /\ \A i \in 1..Len(returned) :
                    /\ returned[i].asset \in MarginAssets
                    /\ returned[i].address = response[i].asset

\* the part of C23 that holds: addresses, quantities and positions are the
\* API's, and the asset is the client's key for every address it knows
BalancesOfKnownAssets ==
    \A c \in Slots :
        ReturnedBalances(calls[c]) =>
            LET returned == calls[c].result.value
                response == calls[c].response.data
            IN  /\ Len(returned) = Len(response)
                /\ \A i \in 1..Len(returned) :
                    /\ returned[i].address = response[i].asset
                    /\ returned[i].quantity = response[i].quantity
                    /\ response[i].asset = config.marginAssets.USDC
                            <=> returned[i].asset \in MarginAssets
                    /\ response[i].asset # config.marginAssets.USDC
                            <=> returned[i].asset = "undefined"

-----------------------------------------------------------------------------
(* #waitForTransaction *)

\* deposit under the scheduling of the event loop: the timer of sleep(1000)
\* fires (weak fairness of SleepResolve), and the receipt eventually becomes
\* available, so that of the lookups repeated without end one resolves (strong
\* fairness of ReceiptResolve)
SpecDepositFair ==
    SpecDeposit /\ WF_vars(SleepResolve) /\ SF_vars(ReceiptResolve)

\* the call is inside #waitForTransaction
Waiting(call) ==
    call.op = "deposit"
    /\ call.pc \in {"waitApprove", "sleepApprove", "waitDeposit", "sleepDeposit"}

\* the hash #waitForTransaction was called with: the last chain step while waiting
WaitedHash(call) == call.chain[Len(call.chain)].hash

ReceiptSeen(call, hash) ==
    \E i \in 1..Len(call.chain) :
        call.chain[i].step \in {"approveReceipt", "depositReceipt"} /\ call.chain[i].hash = hash

\* one step of a call inside #waitForTransaction: a lookup ends the wait only
\* with the receipt of the awaited hash, a failed lookup leads to the sleep of
\* the same wait, and the sleep leads to the next lookup for the same hash
WaitStep(c) ==
    LET call == calls[c]
        next == calls'[c]
    IN  (Waiting(call) /\ next # call) =>
            /\ ~Waiting(next) =>
                    /\ call.pc \in {"waitApprove", "waitDeposit"}
                    /\ ~ReceiptSeen(call, WaitedHash(call))
                    /\ ReceiptSeen(next, WaitedHash(call))
            /\ Waiting(next) =>
                    /\ next.chain = call.chain
                    /\ call.pc = "waitApprove" => next.pc = "sleepApprove"
                    /\ call.pc = "waitDeposit" => next.pc = "sleepDeposit"
                    /\ call.pc = "sleepApprove" => next.pc = "waitApprove"
                    /\ call.pc = "sleepDeposit" => next.pc = "waitDeposit"
                    /\ call.pc \in {"sleepApprove", "sleepDeposit"} =>
                            next.lookups >= call.lookups

\* C24: #waitForTransaction ends only when a receipt for its hash has been
\* observed; after every failed lookup it sleeps and looks up again, however
\* many lookups have failed; and when the receipt eventually becomes
\* available the wait ends. Without a receipt the wait, and deposit, do not
\* return.
C24_WaitForTransaction ==
    /\ [][\A c \in Slots : WaitStep(c)]_vars
    /\ [](\A c \in Slots :
            (calls[c].op = "deposit" /\ calls[c].pc = "returned"
                /\ calls[c].result.value = "true")
                => ReceiptSeen(calls[c], DepositHash))
    /\ \A c \in Slots : Waiting(calls[c]) ~> ~Waiting(calls[c])

\* a deposit that returned after the lookups of its receipt had failed at
\* least MaxLookups - 1 times
C24_Witness ==
    \E c \in Slots :
        /\ calls[c].op = "deposit"
        /\ calls[c].pc = "returned"
        /\ calls[c].result.value = "true"
        /\ calls[c].lookups = MaxLookups
        /\ ReceiptSeen(calls[c], DepositHash)

\* the expiration and the nonce of an order as the call computed them
OrderTimes(call) ==
    [expiration |-> IF call.args.expiration = Undefined
                    THEN Num(call.calledAt + THIRTY_DAYS, 0)
                    ELSE call.args.expiration,
     nonce |-> IF call.args.nonce = Undefined
               THEN Num((call.calledAt + call.startPerf) * 1000, 0)
               ELSE call.args.nonce]

\* C25: in placeOrder and cancelAndReplaceOrder the expiration and the nonce
\* given by the caller are the ones signed and sent; an omitted expiration
\* is the timestamp of the call plus thirty days; and every signature and
\* every request of the call carries the values computed at the call,
\* whatever time has passed since.
C25_ExpirationAndNonce ==
    \A c \in Slots :
        LET call == calls[c]
            times == OrderTimes(call)
        IN  (call.op \in {"placeOrder", "cancelAndReplaceOrder"} /\ call.wire # NoMessage) =>
                /\ PayloadOf(call.op, call.wire).expiration = times.expiration
                /\ PayloadOf(call.op, call.wire).nonce = times.nonce
                /\ call.message.expiration = Big(times.expiration.c, 0)
                /\ call.message.nonce = Big(times.nonce.c, 0)
                /\ times.expiration.e = 0 /\ times.nonce.e = 0
                /\ \A i \in 1..Len(call.signed) :
                        /\ call.signed[i].message.expiration = Big(times.expiration.c, 0)
                        /\ call.signed[i].message.nonce = Big(times.nonce.c, 0)
                /\ \A i \in 1..Len(call.sent) :
                        /\ PayloadOf(call.op, call.sent[i].body).expiration = times.expiration
                        /\ PayloadOf(call.op, call.sent[i].body).nonce = times.nonce
                        /\ call.sent[i].signature[1].message.expiration
                                = Big(times.expiration.c, 0)
                        /\ call.sent[i].signature[1].message.nonce = Big(times.nonce.c, 0)

\* an order with the caller's nonce and the default expiration, sent after
\* the clock has moved on
C25_Witness ==
    \E c \in Slots :
        /\ calls[c].op = "placeOrder"
        /\ calls[c].args.expiration = Undefined
        /\ calls[c].args.nonce = Num(123, 0)
        /\ calls[c].calledAt = 1
        /\ now = 2
        /\ Len(calls[c].sent) = 1
        /\ calls[c].sent[1].body.expiration = Num(1 + THIRTY_DAYS, 0)
        /\ calls[c].sent[1].body.nonce = Num(123, 0)

\* the nonce a call put into its message
NonceOf(call) == PayloadOf(call.op, call.wire).nonce

\* C26: two operations of one client that take the default nonce are signed
\* with different nonces, also two elements of one placeOrders batch, and
\* the default nonce of a later call is not below that of an earlier one.
C26_DefaultNoncesDistinct ==
    \A c1, c2 \in Slots :
        (c1 < c2 /\ TakesDefaultNonce(calls[c1]) /\ TakesDefaultNonce(calls[c2])) =>
            /\ NonceOf(calls[c1]) # NonceOf(calls[c2])
            /\ NonceOf(calls[c1]).c <= NonceOf(calls[c2]).c

\* what holds of the default nonces of one batch: they do not decrease, and
\* two of them are equal exactly when the clocks showed the same values to
\* both elements
DefaultNoncesFollowClock ==
    \A c1, c2 \in Slots :
        (c1 < c2 /\ TakesDefaultNonce(calls[c1]) /\ TakesDefaultNonce(calls[c2])) =>
            /\ NonceOf(calls[c1]).c <= NonceOf(calls[c2]).c
            /\ NonceOf(calls[c1]) = NonceOf(calls[c2])
                    <=> calls[c1].startPerf = calls[c2].startPerf

-----------------------------------------------------------------------------
(* The pipeline of the trading operations *)

\* what holds of a trading call at every moment: at most one signature and
\* one request; a request only with the signature over the call's message,
\* which it carries; nothing signed or sent when validation failed or a
\* conversion threw; nothing sent when signing failed; a response only for
\* a request that was sent
PipelineState(call) ==
    /\ Len(call.signed) <= 1
    /\ Len(call.sent) <= 1
    /\ call.sent # <<>> =>
            /\ call.signed # <<>>
            /\ call.sent[1].signature = <<call.signed[1]>>
    /\ call.signed # <<>> =>
            /\ call.signed[1].message = call.message
            /\ call.signed[1].primaryType = PrimaryTypeOf(call.op)
            /\ call.signed[1].signer = config.account
    /\ call.pc = "signing" =>
            /\ call.message # NoMessage
            /\ call.signed = <<>> /\ call.sent = <<>>
            /\ call.op \in {"placeOrder", "cancelAndReplaceOrder"} =>
                    call.message.price.ok /\ call.message.quantity.ok
            /\ call.op = "withdraw" => call.message.quantity.ok
    /\ (call.pc = "threw" \/ MarketWithoutIncrement(call)) =>
            call.signed = <<>> /\ call.sent = <<>> /\ call.message = NoMessage
    /\ SignFailed(call) => call.sent = <<>>
    /\ call.pc = "fetching" => Len(call.sent) = 1 /\ call.response = NoResponse
    /\ call.response # NoResponse => Len(call.sent) = 1 /\ call.pc = "returned"

\* the steps of a trading call: from signing to the one request or to the
\* error result, from the request to the result
PipelineStep(call, next) ==
    /\ call.pc = "signing" =>
            \/ /\ next.pc = "fetching"
               /\ next.message = call.message
               /\ next.signed = <<signTypedData(call.message, call.primaryType)>>
               /\ Len(next.sent) = 1
            \/ /\ next.pc = "returned"
               /\ next.signed = <<>> /\ next.sent = <<>>
               /\ next.result.error = UNKNOWN_ERROR
    /\ call.pc = "fetching" =>
            /\ next.pc = "returned"
            /\ next.sent = call.sent /\ next.signed = call.signed
            /\ next.response # NoResponse
    /\ call.pc \in {"returned", "threw"} => next = IdleCall

\* C27: a trading operation validates, converts, builds its message, signs,
\* sends and normalises in that order: a request is sent only once the
\* signature over the call's message exists and carries that signature, a
\* call sends at most one request, and a call whose validation failed, whose
\* conversion threw or whose signing failed sends none.
C27_Pipeline ==
    /\ [](\A c \in Slots : calls[c].op \in SignedOps => PipelineState(calls[c]))
    /\ [][\A c \in Slots :
            (calls[c].op \in SignedOps /\ calls'[c] # calls[c]) =>
                PipelineStep(calls[c], calls'[c])]_vars

\* a withdrawal that was signed, sent and answered
C27_Witness ==
    \E c \in Slots :
        /\ calls[c].op = "withdraw"
        /\ calls[c].pc = "returned"
        /\ Len(calls[c].signed) = 1
        /\ Len(calls[c].sent) = 1
        /\ calls[c].sent[1].signature = <<calls[c].signed[1]>>
        /\ calls[c].response.kind = "body"
        /\ calls[c].result.error = ""

-----------------------------------------------------------------------------
(* Slippage and the kind of the order *)

\* price * (1 + 2.5 / 100) for a buy and price * (1 - 2.5 / 100) for a sell,
\* as the fraction n / 10^d
ProductAtDefaultSlippage(args) ==
    [n |-> args.price.c * (IF args.isBuy THEN 1025 ELSE 975), d |-> args.price.e + 3]

\* C28: an order of kind LIMIT, LIMIT_MAKER or LIMIT_REDUCE_ONLY is signed
\* and sent with exactly the caller's price times 10^18, whatever slippage
\* and priceIncrement are passed; a MARKET order with no slippage is signed
\* and sent with the price adjusted by 2.5 percent and cut to the tick.
C28_SlippageForMarketOnly ==
    \A c \in Slots :
        LET call == calls[c] IN
        (call.op = "placeOrder" /\ call.signed # <<>>) =>
            LET signed == call.signed[1].message.price IN
            /\ \A i \in 1..Len(call.sent) : call.sent[i].body.price = signed
            /\ EffectiveOrderType(call.args) \in {LIMIT, LIMIT_MAKER, LIMIT_REDUCE_ONLY} =>
                    ExactlyScaled(signed, call.args.price, 18)
            /\ (EffectiveOrderType(call.args) = MARKET /\ call.args.slippage = Undefined) =>
                    LET p == ProductAtDefaultSlippage(call.args)
                        tick == Pow10(p.d - (18 - call.args.priceIncrement))
                    IN  /\ signed.ok
                        /\ signed.z >= call.args.priceIncrement
                        /\ SignedTicks(call) * tick <= p.n
                        /\ p.n < (SignedTicks(call) + 1) * tick

\* a limit order off the tick, passed with a slippage and a priceIncrement,
\* sent with the caller's price
C28_Witness ==
    \E c \in Slots :
        /\ calls[c].op = "placeOrder"
        /\ calls[c].args.orderType = LIMIT_REDUCE_ONLY
        /\ calls[c].args.price = Num(34505, 1)
        /\ calls[c].args.slippage = Num(50, 0)
        /\ calls[c].args.priceIncrement = 18
        /\ Len(calls[c].sent) = 1
        /\ calls[c].sent[1].body.price = Big(34505, 17)

-----------------------------------------------------------------------------
(* The sub-account of the list queries *)

\* C29: in every request of listBalances, listOpenOrders and listPositions
\* the subAccountId of the signed SignedAuthentication message equals the
\* subAccountId of the query string, also when setSubAccountId was called
\* while the signature was awaited.
C29_ListQuerySubAccount ==
    \A c \in Slots :
        calls[c].op \in ListOps =>
            \A i \in 1..Len(calls[c].sent) :
                /\ calls[c].sent[i].signature[1].primaryType = "SignedAuthentication"
                /\ calls[c].sent[i].signature[1].message.subAccountId
                        = calls[c].sent[i].body.subAccountId

\* what holds of the signed id: it is the one of the moment of the call
ListQuerySignsStartSub ==
    \A c \in Slots :
        calls[c].op \in ListOps =>
            \A i \in 1..Len(calls[c].sent) :
                calls[c].sent[i].signature[1].message.subAccountId = calls[c].startSub

-----------------------------------------------------------------------------
(* The result of deposit and the chain *)

DepositReturned(call, success) ==
    call.op = "deposit" /\ call.pc = "returned" /\ call.result.value = success

\* success: true carries the hash of the deposit transaction, which was
\* submitted and whose receipt was observed
SuccessCarriesDepositHash(call) ==
    DepositReturned(call, "true") =>
        /\ call.result.error = ""
        /\ call.transactionHash = DepositHash
        /\ call.transactionHash # ApprovalHash
        /\ DepositHash \in call.broadcast
        /\ ReceiptSeen(call, DepositHash)

\* C30 as stated: a deposit result with success: false implies that the call
\* submitted no deposit transaction, and a result with success: true carries
\* the hash of the deposit transaction, never the approval's, after the
\* receipt of that transaction was observed.
C30_ResultAgreesWithChain ==
    \A c \in Slots :
        /\ DepositReturned(calls[c], "false") => DepositHash \notin calls[c].broadcast
        /\ SuccessCarriesDepositHash(calls[c])

\* C30 amended: a deposit result with success: false implies that
\* writeContract returned no hash for the deposit transaction to the call,
\* so that the call holds no deposit hash and awaited no receipt for one (the
\* transaction may still have reached the network when writeContract failed
\* after sending it); a result with success: true carries the hash of the
\* deposit transaction, never the approval's, after the receipt of that
\* transaction was observed.
C30_ResultAgreesWithHash ==
    \A c \in Slots :
        /\ DepositReturned(calls[c], "false") =>
                /\ ~HasStep(calls[c], "depositHash")
                /\ ~ReceiptSeen(calls[c], DepositHash)
                /\ calls[c].transactionHash = ""
                /\ calls[c].result.error # ""
                /\ DepositHash \in calls[c].broadcast =>
                        calls[c].chain[Len(calls[c].chain)].step = "writeDeposit"
        /\ SuccessCarriesDepositHash(calls[c])

\* a deposit that returned success: true with the deposit's hash after an
\* approval of its own was confirmed
C30_Witness ==
    \E c \in Slots :
        /\ DepositReturned(calls[c], "true")
        /\ calls[c].transactionHash = DepositHash
        /\ ReceiptSeen(calls[c], ApprovalHash)
        /\ ReceiptSeen(calls[c], DepositHash)
        /\ calls[c].broadcast = {ApprovalHash, DepositHash}

\* a deposit that returned success: false after its approval was confirmed
\* and its deposit transaction had reached the network
FailedAfterBroadcast ==
    \E c \in Slots :
        /\ DepositReturned(calls[c], "false")
        /\ ReceiptSeen(calls[c], ApprovalHash)
        /\ DepositHash \in calls[c].broadcast

====
